---------------------------- MODULE Spec2Model ----------------------------
(***************************************************************************)
(* A model of the example programs of zacks-go-examples.  Every example   *)
(* is its own program: the state of each is one record variable whose     *)
(* fields carry the names of the Go variables of the function it models,  *)
(* and each program has its own initial state, next-state relation and    *)
(* specification.  Goroutines are interleaved one statement at a time; an *)
(* unbuffered channel operation is a rendezvous of a sender parked at its *)
(* send and a receiver parked at its receive.                             *)
(***************************************************************************)
EXTENDS Integers, Sequences, FiniteSets, Bags, TLC

VARIABLES
    mx,      \* footguns/01-race-conditions: the frame of mutexes()
    rc,      \* footguns/01-race-conditions: the frame of raceConditions()
    runner,  \* footguns/01-race-conditions: runRaceConditionsAndMutexes()
    gr,      \* the goroutines example: main, waitingWithAWaitgroup,
             \* childGoroutines and spawning
    fan,     \* contexts/02-channels:
             \* multipleGoroutinesReadingAndWritingToTheSameChannel()
    nb,      \* contexts/02-channels: nonBlockingChannelReads()
    sd,      \* contexts/02-channels: shuttingDownAGoroutine() and main's return
    cx,      \* the contexts example (src/unnamed/part_002): main and the functions it calls
    ec,      \* 09-order-of-error-chains: one error handed to the helpers of errors/utils
    js,      \* 08-interrogating-errors: main and readJSONFileAndFallback
    ts,      \* test.sh: the loop over the examples
    tt       \* interfaces/02-typed-temperatures and the Temperature interface: a conversion and back

vars == <<mx, rc, runner, gr, fan, nb, sd, cx, ec, js, ts, tt>>

\* What the actions of one program leave alone: the other programs.
othersMx == <<rc, runner, gr, fan, nb, sd, cx, ec, js, ts, tt>>
othersRace == <<mx, gr, fan, nb, sd, cx, ec, js, ts, tt>>
othersGr == <<mx, rc, runner, fan, nb, sd, cx, ec, js, ts, tt>>
othersFan == <<mx, rc, runner, gr, nb, sd, cx, ec, js, ts, tt>>
othersNb == <<mx, rc, runner, gr, fan, sd, cx, ec, js, ts, tt>>
othersSd == <<mx, rc, runner, gr, fan, nb, cx, ec, js, ts, tt>>
othersCx == <<mx, rc, runner, gr, fan, nb, sd, ec, js, ts, tt>>
othersEc == <<mx, rc, runner, gr, fan, nb, sd, cx, js, ts, tt>>
othersJs == <<mx, rc, runner, gr, fan, nb, sd, cx, ec, ts, tt>>
othersTs == <<mx, rc, runner, gr, fan, nb, sd, cx, ec, js, tt>>
othersTt == <<mx, rc, runner, gr, fan, nb, sd, cx, ec, js, ts>>

(***************************************************************************)
(* Helpers shared by the programs.                                         *)
(***************************************************************************)

\* utils.Sum over the integers lo..hi: 0 + lo + (lo+1) + ... + hi.
RECURSIVE SumTo(_, _)
SumTo(lo, hi) == IF hi < lo THEN 0 ELSE hi + SumTo(lo, hi - 1)

(***************************************************************************)
(* footguns/01-race-conditions: mutexes()                                  *)
(***************************************************************************)

\* The last value of i in "for i := 0; i <= 10; i++" of mutexes().
MutexLoopMax == 10

MutexGoroutines == 0..MutexLoopMax

\* The state of mutexes() right after "mux := sync.Mutex{}".
\*   pc       where the calling goroutine is: "loop", "wait", "return", "done"
\*   g[i]     where the goroutine spawned for i is: "unspawned", "lock",
\*            "read", "write", "unlock", "wgdone", "exited"
\*   tmp[i]   the value of finalValue that goroutine i loaded for its +=
\*   mux      TRUE while the mutex is locked
\*   ret      the value returned
MutexFrame ==
    [finalValue |-> 0, wg |-> 0, mux |-> FALSE, i |-> 0, pc |-> "loop",
     g |-> [k \in MutexGoroutines |-> "unspawned"],
     tmp |-> [k \in MutexGoroutines |-> 0], ret |-> 0]

\* mux.Lock() can return only while the mutex is unlocked.
MutexLockBlocksUnguarded(locked) == FALSE
MutexLockBlocks(locked) == locked

\* wg.Wait() returns only when the counter is zero.
MutexWaitReturns(counter) == counter = 0

\* One iteration of the loop: i := i; wg.Add(1); go func() {...}().
MxSpawn ==
    /\ mx.pc = "loop"
    /\ mx.i <= MutexLoopMax
    /\ mx' = [mx EXCEPT !.wg = @ + 1, !.g[mx.i] = "lock", !.i = @ + 1]
    /\ UNCHANGED othersMx

\* The loop condition fails: the caller goes on to wg.Wait().
MxLoopEnd ==
    /\ mx.pc = "loop"
    /\ mx.i > MutexLoopMax
    /\ mx' = [mx EXCEPT !.pc = "wait"]
    /\ UNCHANGED othersMx

\* wg.Wait() returns.
MxWait ==
    /\ mx.pc = "wait"
    /\ MutexWaitReturns(mx.wg)
    /\ mx' = [mx EXCEPT !.pc = "return"]
    /\ UNCHANGED othersMx

\* return finalValue
MxReturn ==
    /\ mx.pc = "return"
    /\ mx' = [mx EXCEPT !.ret = mx.finalValue, !.pc = "done"]
    /\ UNCHANGED othersMx

\* mux.Lock() in goroutine k.
MxLock(k) ==
    /\ mx.g[k] = "lock"
    /\ ~MutexLockBlocks(mx.mux)
    /\ mx' = [mx EXCEPT !.mux = TRUE, !.g[k] = "read"]
    /\ UNCHANGED othersMx

\* finalValue += i, first half: load finalValue.
MxRead(k) ==
    /\ mx.g[k] = "read"
    /\ mx' = [mx EXCEPT !.tmp[k] = mx.finalValue, !.g[k] = "write"]
    /\ UNCHANGED othersMx

\* finalValue += i, second half: store the sum.
MxWrite(k) ==
    /\ mx.g[k] = "write"
    /\ mx' = [mx EXCEPT !.finalValue = mx.tmp[k] + k, !.tmp[k] = 0,
                        !.g[k] = "unlock"]
    /\ UNCHANGED othersMx

\* The deferred mux.Unlock(): deferred last, so it runs first.
MxUnlock(k) ==
    /\ mx.g[k] = "unlock"
    /\ mx' = [mx EXCEPT !.mux = FALSE, !.g[k] = "wgdone"]
    /\ UNCHANGED othersMx

\* The deferred wg.Done(), the goroutine's last statement.
MxDone(k) ==
    /\ mx.g[k] = "wgdone"
    /\ mx' = [mx EXCEPT !.wg = @ - 1, !.g[k] = "exited"]
    /\ UNCHANGED othersMx

NextMutexes ==
    \/ MxSpawn
    \/ MxLoopEnd
    \/ MxWait
    \/ MxReturn
    \/ \E k \in MutexGoroutines : MxLock(k)
    \/ \E k \in MutexGoroutines : MxRead(k)
    \/ \E k \in MutexGoroutines : MxWrite(k)
    \/ \E k \in MutexGoroutines : MxUnlock(k)
    \/ \E k \in MutexGoroutines : MxDone(k)

(***************************************************************************)
(* footguns/01-race-conditions: raceConditions()                           *)
(***************************************************************************)

\* The last value of i in "for i := 0; i <= 10; i++" of raceConditions(),
\* which is 10 in the source: the model runs the loop to RaceLoopMax.
RaceLoopMax == 3

RaceGoroutines == 0..RaceLoopMax

\* The state of raceConditions() right after "wg := sync.WaitGroup{}".
\*   pc       "idle" (not called), "loop", "wait", "return", "done"
\*   g[i]     "unspawned", "read", "write", "wgdone", "exited"
\*   tmp[i]   the value of finalValue that goroutine i loaded for its +=
\*   lost     history: some goroutine stored over a finalValue that was no
\*            longer the one it had loaded
RaceFrame ==
    [finalValue |-> 0, wg |-> 0, i |-> 0, pc |-> "loop",
     g |-> [k \in RaceGoroutines |-> "unspawned"],
     tmp |-> [k \in RaceGoroutines |-> 0], ret |-> 0, lost |-> FALSE]

RaceIdle == [RaceFrame EXCEPT !.pc = "idle"]

\* The runner's frame: resultMap, runs, and where it is: "none" (the
\* function under study was called on its own), "loop", "call", "results".
RunnerNone == [resultMap |-> {}, runs |-> 0, pc |-> "none"]

\* wg.Wait() returns only when the counter is zero.
RaceWaitReturns(counter) == counter = 0

\* The value goroutine k stores for "finalValue += i".
RaceStoredForgetsI(loaded, k) == loaded
RaceStored(loaded, k) == loaded + k

\* One iteration of the loop: i := i; wg.Add(1); go func() {...}().
RcSpawn ==
    /\ rc.pc = "loop"
    /\ rc.i <= RaceLoopMax
    /\ rc' = [rc EXCEPT !.wg = @ + 1, !.g[rc.i] = "read", !.i = @ + 1]
    /\ UNCHANGED <<runner, othersRace>>

RcLoopEnd ==
    /\ rc.pc = "loop"
    /\ rc.i > RaceLoopMax
    /\ rc' = [rc EXCEPT !.pc = "wait"]
    /\ UNCHANGED <<runner, othersRace>>

RcWait ==
    /\ rc.pc = "wait"
    /\ RaceWaitReturns(rc.wg)
    /\ rc' = [rc EXCEPT !.pc = "return"]
    /\ UNCHANGED <<runner, othersRace>>

RcReturn ==
    /\ rc.pc = "return"
    /\ rc' = [rc EXCEPT !.ret = rc.finalValue, !.pc = "done"]
    /\ UNCHANGED <<runner, othersRace>>

\* finalValue += i, first half: the unsynchronized load.
RcRead(k) ==
    /\ rc.g[k] = "read"
    /\ rc' = [rc EXCEPT !.tmp[k] = rc.finalValue, !.g[k] = "write"]
    /\ UNCHANGED <<runner, othersRace>>

\* finalValue += i, second half: the unsynchronized store.
RcWrite(k) ==
    /\ rc.g[k] = "write"
    /\ rc' = [rc EXCEPT !.finalValue = RaceStored(rc.tmp[k], k),
                        !.lost = @ \/ (rc.finalValue # rc.tmp[k]),
                        !.tmp[k] = 0, !.g[k] = "wgdone"]
    /\ UNCHANGED <<runner, othersRace>>

\* The deferred wg.Done().
RcDone(k) ==
    /\ rc.g[k] = "wgdone"
    /\ rc' = [rc EXCEPT !.wg = @ - 1, !.g[k] = "exited"]
    /\ UNCHANGED <<runner, othersRace>>

NextRace ==
    \/ RcSpawn
    \/ RcLoopEnd
    \/ RcWait
    \/ RcReturn
    \/ \E k \in RaceGoroutines : RcRead(k)
    \/ \E k \in RaceGoroutines : RcWrite(k)
    \/ \E k \in RaceGoroutines : RcDone(k)

(***************************************************************************)
(* footguns/01-race-conditions: runRaceConditionsAndMutexes(), the loop    *)
(* that calls raceConditions() until resultMap holds enough results.      *)
(***************************************************************************)

\* The number of distinct results the loop waits for, "len(resultMap) == 10"
\* in the source, scaled with RaceLoopMax: goroutines 0..3 can produce no
\* more than the seven results 0..6.
DistinctWanted == 3

\* The model stops counting runs here; runs is only printed.
RunsCap == 2

RunnerFrame == [resultMap |-> {}, runs |-> 0, pc |-> "loop"]

\* runs++
RunsIncrement(runs) == IF runs < RunsCap THEN runs + 1 ELSE runs

\* if len(resultMap) == 10 { break }
RunnerBreak ==
    /\ runner.pc = "loop"
    /\ Cardinality(runner.resultMap) = DistinctWanted
    /\ runner' = [runner EXCEPT !.pc = "results"]
    /\ UNCHANGED <<rc, othersRace>>

\* result := raceConditions(): the call.
RunnerCall ==
    /\ runner.pc = "loop"
    /\ Cardinality(runner.resultMap) # DistinctWanted
    /\ runner' = [runner EXCEPT !.pc = "call"]
    /\ rc' = RaceFrame
    /\ UNCHANGED othersRace

\* raceConditions() has returned: record the result, runs++.
RunnerRecord ==
    /\ runner.pc = "call"
    /\ rc.pc = "done"
    /\ runner' = [runner EXCEPT !.resultMap = @ \cup {rc.ret},
                                !.runs = RunsIncrement(@), !.pc = "loop"]
    /\ rc' = RaceIdle
    /\ UNCHANGED othersRace

NextRunner ==
    \/ RunnerBreak
    \/ RunnerCall
    \/ RunnerRecord
    \/ RcSpawn
    \/ RcLoopEnd
    \/ RcWait
    \/ RcReturn
    \/ \E k \in RaceGoroutines : RcRead(k)
    \/ \E k \in RaceGoroutines : RcWrite(k)
    \/ \E k \in RaceGoroutines : RcDone(k)

(***************************************************************************)
(* The goroutines example (package main of lines 86-200 of                 *)
(* src/09-order-of-error-chains/main.go): main calls                       *)
(* waitingWithAWaitgroup, childGoroutines and spawning, and returns.       *)
(***************************************************************************)

\* The last value of i in "for i := 0; i <= 10; i++" of
\* waitingWithAWaitgroup, 10 in the source.
WaitLoopMax == 2

\* The last value of i in "for i := 0; i <= 10; i++" of childGoroutines,
\* 10 in the source.
ChildLoopMax == 1

Sleepers == 0..WaitLoopMax
Children == 0..ChildLoopMax

\* The calls of waitingWithAWaitgroup: call 0 is main's, call c + 1 is the
\* one of the child goroutine that childGoroutines spawns for i = c.
WaitCalls == 0..(ChildLoopMax + 1)

\* A call of waitingWithAWaitgroup that has not started.
\*   pc     "idle", "loop", "go" (between wg.Add(1) and the go statement),
\*          "wait", "returned" ('done waiting' printed)
\*   s[i]   the goroutine spawned for i: "unspawned", "sleeping", "exited"
WaitFrameIdle ==
    [wg |-> 0, i |-> 0, pc |-> "idle", s |-> [k \in Sleepers |-> "unspawned"]]

\* The state of main at its first statement.
\*   pc      "waiting" (in waitingWithAWaitgroup), "childloop", "childgo",
\*           "childwait", "spawning", "spawning2", "mainreturn", "exited"
\*   w       the calls of waitingWithAWaitgroup
\*   cwg, ci, child   wg, i and the goroutines of childGoroutines:
\*           "unspawned", "call" (in waitingWithAWaitgroup), "exited"
\*   sleep   the goroutine "go utils.NamedSleep(...)" of spawning:
\*           "unspawned", "sleeping", "woke", "printed"
\*   hello   the closure goroutine of spawning: "unspawned", "runnable",
\*           "printed"
GrFrame ==
    [pc |-> "waiting",
     w |-> [f \in WaitCalls |->
              IF f = 0 THEN [WaitFrameIdle EXCEPT !.pc = "loop"]
                       ELSE WaitFrameIdle],
     cwg |-> 0, ci |-> 0, child |-> [c \in Children |-> "unspawned"],
     sleep |-> "unspawned", hello |-> "unspawned"]

\* wg.Wait() returns only when the counter is zero.
WgWaitReturnsAtOnce(counter) == TRUE
WgWaitReturns(counter) == counter = 0

\* wg.Add(1) of call f.
WgAdd(f) ==
    /\ gr.w[f].pc = "loop"
    /\ gr.w[f].i <= WaitLoopMax
    /\ gr' = [gr EXCEPT !.w[f].wg = @ + 1, !.w[f].pc = "go"]
    /\ UNCHANGED othersGr

\* go func() {...}() of call f, and i++.
WgGo(f) ==
    /\ gr.w[f].pc = "go"
    /\ gr' = [gr EXCEPT !.w[f].s[gr.w[f].i] = "sleeping", !.w[f].i = @ + 1,
                        !.w[f].pc = "loop"]
    /\ UNCHANGED othersGr

\* The loop of call f ends.
WgLoopEnd(f) ==
    /\ gr.w[f].pc = "loop"
    /\ gr.w[f].i > WaitLoopMax
    /\ gr' = [gr EXCEPT !.w[f].pc = "wait"]
    /\ UNCHANGED othersGr

\* wg.Wait() of call f returns, 'done waiting' is printed, f returns.
WgWait(f) ==
    /\ gr.w[f].pc = "wait"
    /\ WgWaitReturns(gr.w[f].wg)
    /\ gr' = [gr EXCEPT !.w[f].pc = "returned"]
    /\ UNCHANGED othersGr

\* Goroutine k of call f: utils.NamedSleep returns, the deferred wg.Done()
\* runs and the goroutine ends.
WgSleeperDone(f, k) ==
    /\ gr.w[f].s[k] = "sleeping"
    /\ gr' = [gr EXCEPT !.w[f].s[k] = "exited", !.w[f].wg = @ - 1]
    /\ UNCHANGED othersGr

\* main: waitingWithAWaitgroup("waiting-with-waitgroup") has returned,
\* childGoroutines() is called.
MainCallsChildGoroutines ==
    /\ gr.pc = "waiting"
    /\ gr.w[0].pc = "returned"
    /\ gr' = [gr EXCEPT !.pc = "childloop"]
    /\ UNCHANGED othersGr

\* childGoroutines: wg.Add(1).
ChildAdd ==
    /\ gr.pc = "childloop"
    /\ gr.ci <= ChildLoopMax
    /\ gr' = [gr EXCEPT !.cwg = @ + 1, !.pc = "childgo"]
    /\ UNCHANGED othersGr

\* childGoroutines: go func() {...}(), and i++.  The child goroutine calls
\* waitingWithAWaitgroup(name) inside utils.TimeIt.
ChildGo ==
    /\ gr.pc = "childgo"
    /\ gr' = [gr EXCEPT !.child[gr.ci] = "call", !.w[gr.ci + 1].pc = "loop",
                        !.ci = @ + 1, !.pc = "childloop"]
    /\ UNCHANGED othersGr

\* childGoroutines: the loop ends.
ChildLoopEnd ==
    /\ gr.pc = "childloop"
    /\ gr.ci > ChildLoopMax
    /\ gr' = [gr EXCEPT !.pc = "childwait"]
    /\ UNCHANGED othersGr

\* Child c: waitingWithAWaitgroup has returned, TimeIt prints, the deferred
\* wg.Done() runs and the goroutine ends.
ChildDone(c) ==
    /\ gr.child[c] = "call"
    /\ gr.w[c + 1].pc = "returned"
    /\ gr' = [gr EXCEPT !.child[c] = "exited", !.cwg = @ - 1]
    /\ UNCHANGED othersGr

\* childGoroutines: wg.Wait() returns and so does childGoroutines; main
\* calls spawning().
ChildWait ==
    /\ gr.pc = "childwait"
    /\ WgWaitReturns(gr.cwg)
    /\ gr' = [gr EXCEPT !.pc = "spawning"]
    /\ UNCHANGED othersGr

\* spawning: go utils.NamedSleep("spawning", 500*time.Millisecond)
SpawnSleep ==
    /\ gr.pc = "spawning"
    /\ gr' = [gr EXCEPT !.sleep = "sleeping", !.pc = "spawning2"]
    /\ UNCHANGED othersGr

\* spawning: go func() { fmt.Println("hello ...") }(); spawning returns.
SpawnHello ==
    /\ gr.pc = "spawning2"
    /\ gr' = [gr EXCEPT !.hello = "runnable", !.pc = "mainreturn"]
    /\ UNCHANGED othersGr

\* main returns: the program exits, and the goroutines still running with it.
MainReturn ==
    /\ gr.pc = "mainreturn"
    /\ gr' = [gr EXCEPT !.pc = "exited"]
    /\ UNCHANGED othersGr

\* The goroutine of NamedSleep: time.Sleep(d) returns inside TimeIt.
SleepWakes ==
    /\ gr.pc # "exited"
    /\ gr.sleep = "sleeping"
    /\ gr' = [gr EXCEPT !.sleep = "woke"]
    /\ UNCHANGED othersGr

\* The goroutine of NamedSleep: the deferred Printf of TimeIt prints its line.
SleepPrints ==
    /\ gr.pc # "exited"
    /\ gr.sleep = "woke"
    /\ gr' = [gr EXCEPT !.sleep = "printed"]
    /\ UNCHANGED othersGr

\* The closure goroutine prints its line.
HelloPrints ==
    /\ gr.pc # "exited"
    /\ gr.hello = "runnable"
    /\ gr' = [gr EXCEPT !.hello = "printed"]
    /\ UNCHANGED othersGr

NextGoroutines ==
    \/ \E f \in WaitCalls : WgAdd(f)
    \/ \E f \in WaitCalls : WgGo(f)
    \/ \E f \in WaitCalls : WgLoopEnd(f)
    \/ \E f \in WaitCalls : WgWait(f)
    \/ \E f \in WaitCalls : \E k \in Sleepers : WgSleeperDone(f, k)
    \/ MainCallsChildGoroutines
    \/ ChildAdd
    \/ ChildGo
    \/ ChildLoopEnd
    \/ \E c \in Children : ChildDone(c)
    \/ ChildWait
    \/ SpawnSleep
    \/ SpawnHello
    \/ MainReturn
    \/ SleepWakes
    \/ SleepPrints
    \/ HelloPrints

(***************************************************************************)
(* contexts/02-channels: multipleGoroutinesReadingAndWritingToTheSameChannel *)
(***************************************************************************)

\* The producer goroutines, "for i := 1; i <= 5; i++" in the source.
NumProducers == 2

\* The consumer goroutines, "for i := 1; i <= 5; i++" in the source.
NumConsumers == 2

\* The numbers one producer sends, "for i := 0; i < 10; i++" in the source.
SendsPerProducer == 1

\* The largest number utils.GenerateRandomNumber(0, 100) draws, 100 in the
\* source.
FanMaxNum == 1

Producers == 1..NumProducers
Consumers == 1..NumConsumers

\* utils.GenerateRandomNumber(min, max) returns min + rand.Intn(max-min+1):
\* any of min..max.
GenerateRandomNumber(min, max) == min..max

\* The sum of the values a bag holds, each taken as often as it occurs.
RECURSIVE BagSum(_)
BagSum(B) ==
    IF DOMAIN B = {} THEN 0
    ELSE LET v == CHOOSE x \in DOMAIN B : TRUE
         IN  v * B[v] + BagSum([x \in DOMAIN B \ {v} |-> B[x]])

\* The sum of f[x] over x in S.
RECURSIVE SumOver(_, _)
SumOver(f, S) ==
    IF S = {} THEN 0
    ELSE LET x == CHOOSE y \in S : TRUE IN f[x] + SumOver(f, S \ {x})

\* The state right after "numChan := make(chan int)".
\*   pc        main: "producers", "consumers", "pwait", "close", "cwait",
\*             "returned"
\*   np, nc    the producers and consumers started so far
\*   closed    numChan is closed
\*   producerWaitGroup, consumerWaitGroup   the counters
\*   prod[p]   pc: "unspawned", "gen", "send", "wgdone", "exited";
\*             i: the loop variable; num: the number being sent
\*   cons[c]   pc: "unspawned", "recv", "wgdone", "exited"; sum
\*   sent      the numbers printed as "sent %d from producer Goroutine"
\*   received  the numbers printed as "received %d in consumer Goroutine"
FanFrame ==
    [pc |-> "producers", np |-> 0, nc |-> 0, closed |-> FALSE,
     producerWaitGroup |-> 0, consumerWaitGroup |-> 0,
     prod |-> [p \in Producers |-> [pc |-> "unspawned", i |-> 0, num |-> 0]],
     cons |-> [c \in Consumers |-> [pc |-> "unspawned", sum |-> 0]],
     sent |-> EmptyBag, received |-> EmptyBag]

\* producerWaitGroup.Wait() and consumerWaitGroup.Wait() return only when
\* the counter is zero.
FanWaitReturnsAtOnce(counter) == TRUE
FanWaitReturns(counter) == counter = 0

\* A value received from numChan goes to the one consumer that received it:
\* sum += num in that consumer.
FanDeliverToAll(cons, c, num) ==
    [k \in Consumers |-> [cons[k] EXCEPT !.sum = @ + num]]
FanDeliver(cons, c, num) == [cons EXCEPT ![c].sum = @ + num]

\* main: producerWaitGroup.Add(1); go func() {...}().
FanStartProducer ==
    /\ fan.pc = "producers"
    /\ fan.np < NumProducers
    /\ fan' = [fan EXCEPT !.producerWaitGroup = @ + 1, !.np = @ + 1,
                          !.prod[fan.np + 1].pc = "gen"]
    /\ UNCHANGED othersFan

\* main: the loop starting the producers ends.
FanProducersStarted ==
    /\ fan.pc = "producers"
    /\ fan.np >= NumProducers
    /\ fan' = [fan EXCEPT !.pc = "consumers"]
    /\ UNCHANGED othersFan

\* main: consumerWaitGroup.Add(1); go func() {...}().
FanStartConsumer ==
    /\ fan.pc = "consumers"
    /\ fan.nc < NumConsumers
    /\ fan' = [fan EXCEPT !.consumerWaitGroup = @ + 1, !.nc = @ + 1,
                          !.cons[fan.nc + 1].pc = "recv"]
    /\ UNCHANGED othersFan

\* main: the loop starting the consumers ends.
FanConsumersStarted ==
    /\ fan.pc = "consumers"
    /\ fan.nc >= NumConsumers
    /\ fan' = [fan EXCEPT !.pc = "pwait"]
    /\ UNCHANGED othersFan

\* main: producerWaitGroup.Wait() returns.
FanProducerWait ==
    /\ fan.pc = "pwait"
    /\ FanWaitReturns(fan.producerWaitGroup)
    /\ fan' = [fan EXCEPT !.pc = "close"]
    /\ UNCHANGED othersFan

\* main: close(numChan).
FanClose ==
    /\ fan.pc = "close"
    /\ ~fan.closed
    /\ fan' = [fan EXCEPT !.closed = TRUE, !.pc = "cwait"]
    /\ UNCHANGED othersFan

\* main: consumerWaitGroup.Wait() returns, and so does the function.
FanConsumerWait ==
    /\ fan.pc = "cwait"
    /\ FanWaitReturns(fan.consumerWaitGroup)
    /\ fan' = [fan EXCEPT !.pc = "returned"]
    /\ UNCHANGED othersFan

\* producerFunc: num := utils.GenerateRandomNumber(0, 100) and the Printf
\* of "sent"; the producer then parks at "numChan <- num".
ProducerGenerate(p) ==
    /\ fan.prod[p].pc = "gen"
    /\ fan.prod[p].i < SendsPerProducer
    /\ \E num \in GenerateRandomNumber(0, FanMaxNum) :
          fan' = [fan EXCEPT !.prod[p].num = num, !.prod[p].pc = "send",
                             !.sent = @ (+) SetToBag({num})]
    /\ UNCHANGED othersFan

\* "numChan <- num" of producer p meets "range numChan" of consumer c:
\* the consumer prints "received" and adds num to its sum, the producer
\* goes on with i++.
FanTransfer(p, c) ==
    /\ fan.prod[p].pc = "send"
    /\ fan.cons[c].pc = "recv"
    /\ ~fan.closed
    /\ fan' = [fan EXCEPT !.cons = FanDeliver(@, c, fan.prod[p].num),
                          !.received = @ (+) SetToBag({fan.prod[p].num}),
                          !.prod[p].i = @ + 1, !.prod[p].num = 0,
                          !.prod[p].pc = "gen"]
    /\ UNCHANGED othersFan

\* producerFunc returns: its loop has ended.
ProducerLoopEnd(p) ==
    /\ fan.prod[p].pc = "gen"
    /\ fan.prod[p].i >= SendsPerProducer
    /\ fan' = [fan EXCEPT !.prod[p].pc = "wgdone"]
    /\ UNCHANGED othersFan

\* The deferred producerWaitGroup.Done().
ProducerDone(p) ==
    /\ fan.prod[p].pc = "wgdone"
    /\ fan' = [fan EXCEPT !.producerWaitGroup = @ - 1, !.prod[p].pc = "exited"]
    /\ UNCHANGED othersFan

\* consumerFunc: "range numChan" ends because numChan is closed; the
\* consumer prints its sum and returns.
ConsumerRangeEnds(c) ==
    /\ fan.cons[c].pc = "recv"
    /\ fan.closed
    /\ fan' = [fan EXCEPT !.cons[c].pc = "wgdone"]
    /\ UNCHANGED othersFan

\* The deferred consumerWaitGroup.Done().
ConsumerDone(c) ==
    /\ fan.cons[c].pc = "wgdone"
    /\ fan' = [fan EXCEPT !.consumerWaitGroup = @ - 1, !.cons[c].pc = "exited"]
    /\ UNCHANGED othersFan

NextFan ==
    \/ FanStartProducer
    \/ FanProducersStarted
    \/ FanStartConsumer
    \/ FanConsumersStarted
    \/ FanProducerWait
    \/ FanClose
    \/ FanConsumerWait
    \/ \E p \in Producers : ProducerGenerate(p)
    \/ \E p \in Producers : \E c \in Consumers : FanTransfer(p, c)
    \/ \E p \in Producers : ProducerLoopEnd(p)
    \/ \E p \in Producers : ProducerDone(p)
    \/ \E c \in Consumers : ConsumerRangeEnds(c)
    \/ \E c \in Consumers : ConsumerDone(c)

(***************************************************************************)
(* contexts/02-channels: nonBlockingChannelReads                           *)
(***************************************************************************)

\* The numbers one sender sends, utils.GenerateRandomNumbers(0, 100, 100)
\* in the source: 100 numbers.
NumsPerSender == 2

\* The largest number utils.GenerateRandomNumbers(0, 100, 100) draws, 100
\* in the source.
NbMaxNum == 1

\* chan1, chan2, chan3 and the goroutines sending on them.
Chans == {1, 2, 3}

\* The state right after "chan3 := make(chan int)".
\*   pc          main: "go" (starting the goroutines), "range", "printed"
\*   started     the go statements main has run
\*   sender[s]   pc: "unspawned", "gen", "send", "close", "exited";
\*               i: the numbers sent so far; num: the number being sent.
\*               utils.GenerateRandomNumbers draws its numbers independently
\*               of each other: each is drawn when the loop reaches it.
\*   closed[s]   the channel of sender s is closed
\*   cpc         the collecting goroutine: "unspawned", "select", "handle"
\*               (in handleChannelEvent), "check", "returned"
\*   channelID, value, ok   the arguments of handleChannelEvent
\*   finished[s] chan1Finished, chan2Finished, chan3Finished
\*   cumulativeClosed   cumulativeChan is closed
\*   sum         the sum of main's range loop
\*   sentTotal   history: the sum of the numbers the senders drew to send
NbFrame ==
    [pc |-> "go", started |-> 0,
     sender |-> [s \in Chans |-> [pc |-> "unspawned", i |-> 0, num |-> 0]],
     closed |-> [s \in Chans |-> FALSE],
     cpc |-> "unspawned", channelID |-> 0, value |-> 0, ok |-> FALSE,
     finished |-> [s \in Chans |-> FALSE],
     cumulativeClosed |-> FALSE, sum |-> 0, sentTotal |-> 0,
     closeDestChan |-> TRUE]

\* The program with the line "close(destChan)" of sendRandomNumbersToChannel
\* commented out, as its comment invites the reader to do.
NbFrameNoClose == [NbFrame EXCEPT !.closeDestChan = FALSE]

\* A receive case of the select can proceed: a sender is parked at its send
\* on the channel, or the channel is closed.
RecvReadyOpenOnly(frame, s) == frame.sender[s].pc = "send"
RecvReady(frame, s) == frame.sender[s].pc = "send" \/ frame.closed[s]

\* handleChannelEvent: finished := !ok
HandleFinishedInverted(ok) == ok
HandleFinished(ok) == ~ok

\* handleChannelEvent: cumulativeChan <- value
HandleSendsChannelID(channelID, value) == channelID
HandleSends(channelID, value) == value

\* main: the go statements, in order: the senders of chan1, chan2, chan3,
\* then the collecting goroutine.
NbGo ==
    /\ nb.pc = "go"
    /\ nb.started < 4
    /\ nb' = IF nb.started < 3
             THEN [nb EXCEPT !.started = @ + 1,
                             !.sender[nb.started + 1].pc = "gen"]
             ELSE [nb EXCEPT !.started = @ + 1, !.cpc = "select",
                             !.pc = "range"]
    /\ UNCHANGED othersNb

\* Sender s: the next number of its slice; the sender parks at
\* "destChan <- num".
SenderNext(s) ==
    /\ nb.sender[s].pc = "gen"
    /\ nb.sender[s].i < NumsPerSender
    /\ \E num \in GenerateRandomNumber(0, NbMaxNum) :
          nb' = [nb EXCEPT !.sender[s].num = num, !.sender[s].pc = "send",
                           !.sentTotal = @ + num]
    /\ UNCHANGED othersNb

\* Sender s: the loop has ended.
SenderLoopEnd(s) ==
    /\ nb.sender[s].pc = "gen"
    /\ nb.sender[s].i >= NumsPerSender
    /\ nb' = [nb EXCEPT !.sender[s].pc = "close"]
    /\ UNCHANGED othersNb

\* Sender s: close(destChan) where the program has that line, the Printf,
\* and the goroutine ends.
SenderClose(s) ==
    /\ nb.sender[s].pc = "close"
    /\ nb' = [nb EXCEPT !.closed[s] = nb.closeDestChan,
                        !.sender[s].pc = "exited"]
    /\ UNCHANGED othersNb

\* select: "case val, ok := <-chanS" with a sender parked: the value is
\* received, ok is true, and handleChannelEvent(s, val, ok) is called.
SelectRecvValue(s) ==
    /\ nb.cpc = "select"
    /\ RecvReady(nb, s)
    /\ ~nb.closed[s]
    /\ nb' = [nb EXCEPT !.channelID = s, !.value = nb.sender[s].num,
                        !.ok = TRUE, !.cpc = "handle",
                        !.sender[s].i = @ + 1, !.sender[s].num = 0,
                        !.sender[s].pc = "gen"]
    /\ UNCHANGED othersNb

\* select: "case val, ok := <-chanS" with chanS closed: the zero value and
\* ok = false.
SelectRecvClosed(s) ==
    /\ nb.cpc = "select"
    /\ RecvReady(nb, s)
    /\ nb.closed[s]
    /\ nb' = [nb EXCEPT !.channelID = s, !.value = 0, !.ok = FALSE,
                        !.cpc = "handle"]
    /\ UNCHANGED othersNb

\* select: no case can proceed, so the default case runs and prints.
SelectDefault ==
    /\ nb.cpc = "select"
    /\ \A s \in Chans : ~RecvReady(nb, s)
    /\ nb' = [nb EXCEPT !.cpc = "check"]
    /\ UNCHANGED othersNb

\* handleChannelEvent: "cumulativeChan <- value" meets main's range loop,
\* which adds the value to sum; the result is assigned to chanNFinished.
HandleChannelEvent ==
    /\ nb.cpc = "handle"
    /\ nb.pc = "range"
    /\ ~nb.cumulativeClosed
    /\ nb' = [nb EXCEPT !.sum = @ + HandleSends(nb.channelID, nb.value),
                        !.finished[nb.channelID] = HandleFinished(nb.ok),
                        !.channelID = 0, !.value = 0, !.ok = FALSE,
                        !.cpc = "check"]
    /\ UNCHANGED othersNb

\* if chan1Finished && chan2Finished && chan3Finished: close(cumulativeChan)
\* and return.
CollectorExit ==
    /\ nb.cpc = "check"
    /\ \A s \in Chans : nb.finished[s]
    /\ ~nb.cumulativeClosed
    /\ nb' = [nb EXCEPT !.cumulativeClosed = TRUE, !.cpc = "returned"]
    /\ UNCHANGED othersNb

\* The exit condition does not hold: the next iteration of the for loop.
CollectorLoop ==
    /\ nb.cpc = "check"
    /\ ~(\A s \in Chans : nb.finished[s])
    /\ nb' = [nb EXCEPT !.cpc = "select"]
    /\ UNCHANGED othersNb

\* main: "range cumulativeChan" ends, "Cumulative Value:" is printed.
NbRangeEnds ==
    /\ nb.pc = "range"
    /\ nb.cumulativeClosed
    /\ nb' = [nb EXCEPT !.pc = "printed"]
    /\ UNCHANGED othersNb

NextNb ==
    \/ NbGo
    \/ \E s \in Chans : SenderNext(s)
    \/ \E s \in Chans : SenderLoopEnd(s)
    \/ \E s \in Chans : SenderClose(s)
    \/ \E s \in Chans : SelectRecvValue(s)
    \/ \E s \in Chans : SelectRecvClosed(s)
    \/ SelectDefault
    \/ HandleChannelEvent
    \/ CollectorExit
    \/ CollectorLoop
    \/ NbRangeEnds

(***************************************************************************)
(* contexts/02-channels: shuttingDownAGoroutine, the last call of main.    *)
(*                                                                         *)
(* Time is counted in milliseconds.  A sleeper holds the time it has left  *)
(* to sleep: time.Sleep(d) returns when at least d has passed, so a        *)
(* sleeper wakes when none is left or later.  The scheduler promises no    *)
(* timing: the clock advances whether or not a goroutine can take a step,  *)
(* and a goroutine that can run may be left waiting for any time.          *)
(***************************************************************************)

\* delay := time.Millisecond * 10, and time.Sleep(100 * time.Millisecond).
WorkerDelay == 10
MainSleep == 100

\* The frame counts the lines "Slept for 10ms" up to MaxSlept.
MaxSlept == 12

\* pc is main's position and sleep the time main has left to sleep; w is
\* the worker goroutine's position and delay the time it has left to
\* sleep; slept counts the lines "Slept for 10ms" printed so far (the first
\* MaxSlept of them).
SdFrame ==
    [pc |-> "go", sleep |-> 0, w |-> "unspawned", delay |-> 0, slept |-> 0]

\* main: the go statement, then time.Sleep(100 * time.Millisecond) begins.
SdGo ==
    /\ sd.pc = "go"
    /\ sd' = [sd EXCEPT !.pc = "sleep", !.sleep = MainSleep, !.w = "select"]
    /\ UNCHANGED othersSd

\* main: the sleep is over; main parks at "shutdownChan <- struct{}{}".
SdMainWakes ==
    /\ sd.pc = "sleep"
    /\ sd.sleep = 0
    /\ sd' = [sd EXCEPT !.pc = "send"]
    /\ UNCHANGED othersSd

\* select, "case <-shutdownChan": main is parked at its send, the value
\* is handed over, and both goroutines go on.
SdReceive ==
    /\ sd.pc = "send"
    /\ sd.w = "select"
    /\ sd' = [sd EXCEPT !.pc = "print", !.w = "received"]
    /\ UNCHANGED othersSd

\* select, "default": no sender is parked; time.Sleep(delay) begins.
SdDefault ==
    /\ sd.w = "select"
    /\ sd.pc \notin {"send", "exited"}
    /\ sd' = [sd EXCEPT !.w = "sleeping", !.delay = WorkerDelay]
    /\ UNCHANGED othersSd

\* The worker's sleep is over: the time has passed, and the worker runs.
SdWorkerWakes ==
    /\ sd.w = "sleeping"
    /\ sd.delay = 0
    /\ sd.pc # "exited"
    /\ sd' = [sd EXCEPT !.w = "slept"]
    /\ UNCHANGED othersSd

\* The worker prints "Slept for 10ms" and begins the next iteration.
SdWorkerPrintsSlept ==
    /\ sd.w = "slept"
    /\ sd.pc # "exited"
    /\ sd' = [sd EXCEPT !.w = "select",
                        !.slept = IF @ < MaxSlept THEN @ + 1 ELSE @]
    /\ UNCHANGED othersSd

\* The worker prints "Received shutdown signal" and returns.
SdWorkerReturns ==
    /\ sd.w = "received"
    /\ sd.pc # "exited"
    /\ sd' = [sd EXCEPT !.w = "returned"]
    /\ UNCHANGED othersSd

\* main prints "Goroutine is now shut down"; shuttingDownAGoroutine returns.
SdMainPrints ==
    /\ sd.pc = "print"
    /\ sd' = [sd EXCEPT !.pc = "returned"]
    /\ UNCHANGED othersSd

\* main returns: the program exits and its goroutines run no further.
SdMainExits ==
    /\ sd.pc = "returned"
    /\ sd' = [sd EXCEPT !.pc = "exited"]
    /\ UNCHANGED othersSd

SdSteps ==
    \/ SdGo \/ SdMainWakes \/ SdReceive \/ SdDefault \/ SdWorkerWakes
    \/ SdWorkerPrintsSlept \/ SdWorkerReturns \/ SdMainPrints \/ SdMainExits

\* A millisecond passes for every sleeper, whatever the goroutines that
\* can run are doing.
SdTick ==
    /\ \/ sd.pc = "sleep" /\ sd.sleep > 0
       \/ sd.w = "sleeping" /\ sd.delay > 0
    /\ sd' = [sd EXCEPT
                !.sleep = IF sd.pc = "sleep" /\ @ > 0 THEN @ - 1 ELSE @,
                !.delay = IF sd.w = "sleeping" /\ @ > 0 THEN @ - 1 ELSE @]
    /\ UNCHANGED othersSd

NextShutdown == SdSteps \/ SdTick

(***************************************************************************)
(* The contexts example (src/unnamed/part_002): main calls                 *)
(* simpleCancellation, simpleTimeout, simpleDeadline, sharedContexts and   *)
(* runChildContexts, which calls childContexts(100ms) and                  *)
(* childContexts(1ms).  Time is counted in milliseconds as in              *)
(* shuttingDownAGoroutine: a timer holds the time left until its deadline  *)
(* and fires then or later, and the clock advances whether or not a        *)
(* goroutine can take a step.                                              *)
(***************************************************************************)

\* The number of goroutines sharedContexts and childContexts start (the
\* loops "for i := 1; i <= 10; i++").
NumProcs == 2
Procs == 1..NumProcs

\* No timer: a context made by WithCancel, or a timer that was stopped.
NoTimer == -1

\* delay := time.Millisecond * 100 of simpleCancellation.
CancelDelay == 100

\* childTimeout := time.Millisecond * time.Duration(i*5).
ChildTimeoutStep == 5
ChildTimeout(i) == i * ChildTimeoutStep

\* The calls main makes, in order, each with the timeout of the context the
\* function makes (simpleCancellation's context has none).
MainCalls ==
    << [fn |-> "simpleCancellation", timeout |-> NoTimer],
       [fn |-> "simpleTimeout", timeout |-> 10],
       [fn |-> "simpleDeadline", timeout |-> 10],
       [fn |-> "sharedContexts", timeout |-> 100],
       [fn |-> "childContexts", timeout |-> 100],
       [fn |-> "childContexts", timeout |-> 1] >>

\* A context: done is whether its Done() channel is closed, timer the time
\* left until its timeout fires, cause what made it done ("timer" its own
\* timeout, "parent" its parent becoming done, "cancel" its cancel
\* function), made whether it has been created.
NoContext == [made |-> FALSE, done |-> FALSE, timer |-> NoTimer, cause |-> ""]

\* context.WithCancel(context.Background()).
WithCancel == [NoContext EXCEPT !.made = TRUE]

\* context.WithTimeout(context.Background(), d).
WithTimeoutOfBackground(d) == [NoContext EXCEPT !.made = TRUE, !.timer = d]

\* context.WithTimeout(parent, d): a child of a context that is done is
\* done; a child whose parent's deadline comes before its own has no timer
\* of its own.
WithTimeout(parent, d) ==
    IF parent.done
    THEN [made |-> TRUE, done |-> TRUE, timer |-> NoTimer, cause |-> "parent"]
    ELSE IF parent.timer # NoTimer /\ parent.timer < d
    THEN [NoContext EXCEPT !.made = TRUE]
    ELSE [NoContext EXCEPT !.made = TRUE, !.timer = d]

\* A context becomes done unless it is done already: Done() is closed and
\* the timer stopped.  Cancelling a context that is done changes nothing.
Cancelled(c, cause) ==
    IF c.made /\ ~c.done
    THEN [c EXCEPT !.done = TRUE, !.timer = NoTimer, !.cause = cause]
    ELSE c

\* The frame: call is the index of the running call in MainCalls, pc main's
\* position in it, sleep the time main has left to sleep, ctx the
\* function's context, i and wg the loop variable and the WaitGroup counter.  For the goroutine
\* started in iteration k: g[k] is its position, child[k] its child context
\* (childContexts), p[k] the position of the goroutine
\* startLongRunningProcess starts in it, and closes[k] how often doneChan
\* was closed.  The simple functions call startLongRunningProcess
\* themselves: it is p[1], closes[1].
CxFrame ==
    [call |-> 1, pc |-> "ctx", sleep |-> 0,
     ctx |-> NoContext, i |-> 1, wg |-> 0,
     g |-> [k \in Procs |-> "unspawned"],
     child |-> [k \in Procs |-> NoContext],
     p |-> [k \in Procs |-> "none"],
     closes |-> [k \in Procs |-> 0],
     cancels |-> 0]

CxFn(frame) ==
    IF frame.call <= Len(MainCalls) THEN MainCalls[frame.call].fn ELSE "exit"
CxSimple(frame) ==
    CxFn(frame) \in {"simpleCancellation", "simpleTimeout", "simpleDeadline"}

\* The context passed to the k-th startLongRunningProcess.
CtxOf(frame, k) ==
    IF CxFn(frame) = "childContexts" THEN frame.child[k] ELSE frame.ctx

\* The function's context becomes done, and with it every child context
\* made from it.
CancelParentOnly(frame, cause) ==
    [frame EXCEPT !.ctx = Cancelled(@, cause)]
CancelParent(frame, cause) ==
    [frame EXCEPT !.ctx = Cancelled(@, cause),
                  !.child = [k \in Procs |-> Cancelled(@[k], "parent")]]

\* The child context of goroutine k becomes done; its parent does not.
CancelChild(frame, k, cause) ==
    [frame EXCEPT !.child[k] = Cancelled(@, cause)]

\* A receive from c.Done() can proceed: the channel is closed, which it is
\* once the context is done.
DoneReceivableAlways(c) == TRUE
DoneReceivable(c) == c.done

\* The function makes its context (and defers its cancel function).
CxWithContext ==
    /\ cx.pc = "ctx"
    /\ cx.call <= Len(MainCalls)
    /\ cx' = [cx EXCEPT
                !.ctx = IF CxFn(cx) = "simpleCancellation"
                        THEN WithCancel
                        ELSE WithTimeoutOfBackground(MainCalls[cx.call].timeout),
                !.pc = IF CxSimple(cx) THEN "start" ELSE "loop"]
    /\ UNCHANGED othersCx

\* A simple function calls startLongRunningProcess(ctx, name): the
\* goroutine is started and doneChan returned.  simpleCancellation goes on
\* to print "Sending cancellation after" and to time.Sleep(delay).
CxStart ==
    /\ cx.pc = "start"
    /\ cx' = [cx EXCEPT
                !.p[1] = "started",
                !.sleep = IF CxFn(cx) = "simpleCancellation"
                          THEN CancelDelay ELSE @,
                !.pc = IF CxFn(cx) = "simpleCancellation"
                       THEN "sleep" ELSE "ctxDone"]
    /\ UNCHANGED othersCx

\* simpleCancellation: the sleep is over.
CxMainWakes ==
    /\ cx.pc = "sleep"
    /\ cx.sleep = 0
    /\ cx' = [cx EXCEPT !.pc = "cancel"]
    /\ UNCHANGED othersCx

\* simpleCancellation: cancel().
CxCancel ==
    /\ cx.pc = "cancel"
    /\ cx' = [CancelParent(cx, "cancel") EXCEPT !.pc = "ctxDone",
                                                !.cancels = @ + 1]
    /\ UNCHANGED othersCx

\* <-ctx.Done() (<-parentCtx.Done()) returns once the context is done.
CxCtxDone ==
    /\ cx.pc = "ctxDone"
    /\ DoneReceivable(cx.ctx)
    /\ cx' = [cx EXCEPT !.pc = IF CxSimple(cx) THEN "doneChan" ELSE "wait"]
    /\ UNCHANGED othersCx

\* A simple function: <-doneChan returns once doneChan is closed.
CxDoneChan ==
    /\ cx.pc = "doneChan"
    /\ cx.closes[1] > 0
    /\ cx' = [cx EXCEPT !.pc = "print"]
    /\ UNCHANGED othersCx

\* A simple function prints "Context cancelled!" ("Context timeout
\* reached!", "Context deadline reached!").
CxPrint ==
    /\ cx.pc = "print"
    /\ cx' = [cx EXCEPT !.pc = "defer"]
    /\ UNCHANGED othersCx

\* sharedContexts, childContexts: wg.Add(1) and the go statement of
\* iteration i.
CxSpawn ==
    /\ cx.pc = "loop"
    /\ cx.i <= NumProcs
    /\ cx' = [cx EXCEPT !.wg = @ + 1, !.g[cx.i] = "run", !.i = @ + 1]
    /\ UNCHANGED othersCx

CxLoopEnd ==
    /\ cx.pc = "loop"
    /\ cx.i > NumProcs
    /\ cx' = [cx EXCEPT !.pc = "ctxDone"]
    /\ UNCHANGED othersCx

\* wg.Wait() returns once the counter is zero.
CxWaitReturnsAtOnce(frame) == TRUE
CxWaitReturns(frame) == frame.wg = 0

CxWait ==
    /\ cx.pc = "wait"
    /\ CxWaitReturns(cx)
    /\ cx' = [cx EXCEPT !.pc = "defer"]
    /\ UNCHANGED othersCx

\* The deferred cancel() (parentCancel()) runs.
CxDeferredCancel ==
    /\ cx.pc = "defer"
    /\ cx' = [CancelParent(cx, "cancel") EXCEPT !.pc = "return",
                                                !.cancels = @ + 1]
    /\ UNCHANGED othersCx

\* The function returns and main makes its next call, or returns itself.
CxReturn ==
    /\ cx.pc = "return"
    /\ cx' = [CxFrame EXCEPT !.call = cx.call + 1,
                             !.pc = IF cx.call < Len(MainCalls)
                                    THEN "ctx" ELSE "exited"]
    /\ UNCHANGED othersCx

\* childContexts, goroutine k: childCtx, childCancel :=
\* context.WithTimeout(parentCtx, childTimeout).
CxChildContext(k) ==
    /\ cx.g[k] = "run"
    /\ CxFn(cx) = "childContexts"
    /\ cx' = [cx EXCEPT !.child[k] = WithTimeout(cx.ctx, ChildTimeout(k)),
                        !.g[k] = "start"]
    /\ UNCHANGED othersCx

\* Goroutine k calls startLongRunningProcess and parks at the receive from
\* the channel it returns.
CxGoroutineStart(k) ==
    /\ \/ cx.g[k] = "start"
       \/ cx.g[k] = "run" /\ CxFn(cx) = "sharedContexts"
    /\ cx' = [cx EXCEPT !.p[k] = "started", !.g[k] = "recv"]
    /\ UNCHANGED othersCx

\* Goroutine k: the receive returns once doneChan is closed; the deferred
\* calls follow, childCancel() first where there is one.
CxGoroutineRecv(k) ==
    /\ cx.g[k] = "recv"
    /\ cx.closes[k] > 0
    /\ cx' = [cx EXCEPT !.g[k] = IF CxFn(cx) = "childContexts"
                                 THEN "cancel" ELSE "wgDone"]
    /\ UNCHANGED othersCx

\* childContexts, goroutine k: the deferred childCancel().
CxChildCancel(k) ==
    /\ cx.g[k] = "cancel"
    /\ cx' = [CancelChild(cx, k, "cancel") EXCEPT !.g[k] = "wgDone"]
    /\ UNCHANGED othersCx

\* Goroutine k: the deferred wg.Done(), and the goroutine ends.
CxWgDone(k) ==
    /\ cx.g[k] = "wgDone"
    /\ cx' = [cx EXCEPT !.wg = @ - 1, !.g[k] = "exited"]
    /\ UNCHANGED othersCx

\* The long-running process k prints "<name> started" and enters its loop.
CxProcStarted(k) ==
    /\ cx.p[k] = "started"
    /\ cx' = [cx EXCEPT !.p[k] = "select"]
    /\ UNCHANGED othersCx

\* select, "case <-ctx.Done()": the context is done and the function
\* passed to TimeIt returns.
CxProcStops(k) ==
    /\ cx.p[k] = "select"
    /\ DoneReceivable(CtxOf(cx, k))
    /\ cx' = [cx EXCEPT !.p[k] = "timeit"]
    /\ UNCHANGED othersCx

\* TimeIt prints the elapsed time of process k.
CxProcTimeIt(k) ==
    /\ cx.p[k] = "timeit"
    /\ cx' = [cx EXCEPT !.p[k] = "close"]
    /\ UNCHANGED othersCx

\* close(doneChan), and the goroutine of process k ends.
CxProcClose(k) ==
    /\ cx.p[k] = "close"
    /\ cx' = [cx EXCEPT !.closes[k] = @ + 1, !.p[k] = "exited"]
    /\ UNCHANGED othersCx

\* The timeout of the function's context is reached and its timer runs.
CxTimeout ==
    /\ cx.ctx.made /\ ~cx.ctx.done
    /\ cx.ctx.timer = 0
    /\ cx' = CancelParent(cx, "timer")
    /\ UNCHANGED othersCx

\* The timeout of the child context of goroutine k is reached and its timer
\* runs.
CxChildTimeout(k) ==
    /\ cx.child[k].made /\ ~cx.child[k].done
    /\ cx.child[k].timer = 0
    /\ cx' = CancelChild(cx, k, "timer")
    /\ UNCHANGED othersCx

CxMainSteps ==
    \/ CxWithContext \/ CxStart \/ CxMainWakes \/ CxCancel \/ CxCtxDone
    \/ CxDoneChan \/ CxPrint \/ CxSpawn \/ CxLoopEnd \/ CxWait
    \/ CxDeferredCancel \/ CxReturn
CxGoroutineSteps ==
    \E k \in Procs :
        \/ CxChildContext(k) \/ CxGoroutineStart(k) \/ CxGoroutineRecv(k)
        \/ CxChildCancel(k) \/ CxWgDone(k)
CxProcSteps ==
    \E k \in Procs :
        \/ CxProcStarted(k) \/ CxProcStops(k) \/ CxProcTimeIt(k)
        \/ CxProcClose(k)
CxTimerSteps == CxTimeout \/ \E k \in Procs : CxChildTimeout(k)
CxSteps == CxMainSteps \/ CxGoroutineSteps \/ CxProcSteps \/ CxTimerSteps

\* A millisecond passes for main asleep and for every running timer,
\* whatever the goroutines that can run are doing.
Ticked(c) == IF c.timer > 0 THEN [c EXCEPT !.timer = @ - 1] ELSE c
CxTick ==
    /\ \/ cx.pc = "sleep" /\ cx.sleep > 0
       \/ cx.ctx.timer > 0
       \/ \E k \in Procs : cx.child[k].timer > 0
    /\ cx' = [cx EXCEPT
                !.sleep = IF cx.pc = "sleep" /\ @ > 0 THEN @ - 1 ELSE @,
                !.ctx = Ticked(@),
                !.child = [k \in Procs |-> Ticked(@[k])]]
    /\ UNCHANGED othersCx

NextContexts == CxSteps \/ CxTick

(***************************************************************************)
(* The error chains of errors/utils, utils and 09-order-of-error-chains.   *)
(*                                                                         *)
(* An error value is the sequence of the structs of its chain, outermost   *)
(* first: each struct is a record of its type and of its string field      *)
(* (filename, msg, knowledgebaseURL, or the text of an error made by       *)
(* fmt.Errorf), and the err field of the first struct is the rest of the   *)
(* sequence.  The nil error is the empty sequence.                         *)
(***************************************************************************)

\* The largest number of wrappers around the innermost error.
MaxWrappers == 3

Nil == << >>

Filenames ==
    {"/a/nonexistant/file", "/another/nonexistant/file",
     "/yet/another/nonexistant/file"}

\* fmt.Errorf("innermost error"): an error that holds no inner error.
Errorf(text) == <<[type |-> "errorString", tag |-> text]>>

\* fmt.Errorf("outer error: %w", err).
ErrorfW(text, err) == <<[type |-> "wrapError", tag |-> text]>> \o err

NewFileError(filename, err) ==
    <<[type |-> "FileError", tag |-> filename]>> \o err

NewCustomWrappedError(msg, err) ==
    <<[type |-> "CustomWrappedError", tag |-> msg]>> \o err

\* &resolvableError{knowledgebaseURL: url, err: err}.
NewResolvableError(url, err) ==
    <<[type |-> "resolvableError", tag |-> url]>> \o err

\* The errors with at most n wrappers around an error that holds none.
RECURSIVE ChainsOf(_)
ChainsOf(n) ==
    IF n = 0
    THEN {Errorf("innermost error")}
    ELSE LET inner == ChainsOf(n - 1)
         IN  inner
             \cup {NewFileError(f, e) : f \in Filenames, e \in inner}
             \cup {NewCustomWrappedError("contents malformed", e) : e \in inner}
             \cup {NewResolvableError("https://link.to.kb.article/123", e) :
                       e \in inner}
             \cup {ErrorfW("outer error: ", e) : e \in inner}

ErrorChains == ChainsOf(MaxWrappers) \cup {Nil}

\* The err field of the outermost struct of err.
Inner(err) == Tail(err)

\* The types with an Unwrap() method: FileError, CustomWrappedError, the
\* error fmt.Errorf makes for %w, and fs.PathError of the standard library.
\* resolvableError declares Error() only.
UnwrapTypes == {"FileError", "CustomWrappedError", "wrapError", "PathError"}

\* errors.Unwrap(err): the result of err's Unwrap method if its type has
\* one, otherwise nil.
Unwrap(err) ==
    IF err # Nil /\ Head(err).type \in UnwrapTypes THEN Inner(err) ELSE Nil

\* errors.As(err, &target) for a target of the given type: the first error
\* of that type met by unwrapping err repeatedly, nil if there is none.
RECURSIVE As(_, _)
AsOutermostOnly(err, type) ==
    IF err # Nil /\ Head(err).type = type THEN err ELSE Nil
As(err, type) ==
    IF err = Nil THEN Nil
    ELSE IF Head(err).type = type THEN err
    ELSE As(Unwrap(err), type)

\* The Error() method: the pieces of the text, in order.  A nil err field
\* is formatted by %s as "%!s(<nil>)".
RECURSIVE ErrorString(_)
ErrorString(err) ==
    IF err = Nil THEN <<"%!s(<nil>)">>
    ELSE LET e == Head(err)
             rest == IF e.type = "errorString" THEN << >>
                     ELSE ErrorString(Inner(err))
         IN  CASE e.type = "FileError" ->
                    <<"an error occurred with file (", e.tag, "): ">> \o rest
               [] e.type = "CustomWrappedError" -> <<e.tag, ": ">> \o rest
               [] e.type = "resolvableError" ->
                    <<"resolvable error: '">> \o rest \o <<"', see: ", e.tag>>
               [] e.type = "wrapError" -> <<e.tag>> \o rest
               [] OTHER -> <<e.tag>>

\* What DebugFileAndCustomWrappedError(err) prints: the error text, the
\* filename of the FileError errors.As finds and the msg of the
\* CustomWrappedError it finds (an empty sequence where it finds none), and
\* errors.Unwrap(err) (printed unless nil).
NoDebug == [text |-> << >>, file |-> << >>, msg |-> << >>, unwrapped |-> Nil]
DebugFileAndCustomWrappedError(err) ==
    LET fErr == As(err, "FileError")
        cErr == As(err, "CustomWrappedError")
    IN  [text |-> IF err = Nil THEN <<"<nil>">> ELSE ErrorString(err),
         file |-> IF fErr # Nil THEN <<Head(fErr).tag>> ELSE << >>,
         msg |-> IF cErr # Nil THEN <<Head(cErr).tag>> ELSE << >>,
         unwrapped |-> Unwrap(err)]

\* The matchFunc main passes to TraverseErrorChain: errors.As(err, &fErr)
\* && fErr.Filename() == filename, returning fErr.
MatchFuncAnyFilename(err, filename) == As(err, "FileError")
MatchFunc(err, filename) ==
    LET fErr == As(err, "FileError")
    IN  IF fErr # Nil /\ Head(fErr).tag = filename THEN fErr ELSE Nil

\* main of 09-order-of-error-chains from line 51 on, for the error err and
\* the filename the matchFunc looks for: pc is main's position, dbg what
\* the first DebugFileAndCustomWrappedError(err) printed, unwrapped the
\* local variable of TraverseErrorChain, applied the errors matchFunc was
\* applied to so far, ourErr the result of TraverseErrorChain, and dbgOurErr
\* what DebugFileAndCustomWrappedError(ourErr) printed.
FrameOf(err, filename) ==
    [err |-> err, filename |-> filename, pc |-> "debug", dbg |-> NoDebug,
     unwrapped |-> Nil, applied |-> << >>, ourErr |-> Nil,
     dbgOurErr |-> NoDebug]

\* nestedFileErrors and the filename of main.
NestedFileErrors ==
    NewFileError("/a/nonexistant/file",
        NewFileError("/another/nonexistant/file",
            NewFileError("/yet/another/nonexistant/file",
                         Errorf("innermost error"))))
EcFrame == FrameOf(NestedFileErrors, "/yet/another/nonexistant/file")

\* utils.DebugFileAndCustomWrappedError(nestedFileErrors).
EcDebug ==
    /\ ec.pc = "debug"
    /\ ec' = [ec EXCEPT !.dbg = DebugFileAndCustomWrappedError(ec.err),
                        !.pc = "call"]
    /\ UNCHANGED othersEc

\* TraverseErrorChain is called: var unwrapped error = err.
EcTraverseCall ==
    /\ ec.pc = "call"
    /\ ec' = [ec EXCEPT !.unwrapped = ec.err, !.pc = "loop"]
    /\ UNCHANGED othersEc

\* One iteration of "for unwrapped != nil": unwrapped is unwrapped, then
\* matchFunc is applied to it, and its result returned if it is not nil.
EcTraverseStep ==
    /\ ec.pc = "loop"
    /\ ec.unwrapped # Nil
    /\ LET u == Unwrap(ec.unwrapped)
           matched == MatchFunc(u, ec.filename)
       IN  ec' = [ec EXCEPT !.unwrapped = u,
                            !.applied = Append(@, u),
                            !.ourErr = matched,
                            !.pc = IF matched # Nil THEN "returned" ELSE @]
    /\ UNCHANGED othersEc

\* The loop ends with unwrapped == nil: return nil.
EcTraverseEnd ==
    /\ ec.pc = "loop"
    /\ ec.unwrapped = Nil
    /\ ec' = [ec EXCEPT !.ourErr = Nil, !.pc = "returned"]
    /\ UNCHANGED othersEc

\* utils.DebugFileAndCustomWrappedError(ourErr).
EcDebugOurErr ==
    /\ ec.pc = "returned"
    /\ ec' = [ec EXCEPT !.dbgOurErr = DebugFileAndCustomWrappedError(ec.ourErr),
                        !.pc = "done"]
    /\ UNCHANGED othersEc

NextErrors ==
    \/ EcDebug \/ EcTraverseCall \/ EcTraverseStep \/ EcTraverseEnd
    \/ EcDebugOurErr

(***************************************************************************)
(* 08-interrogating-errors: main calls readJSONFileAndFallback, which      *)
(* calls readAJSONFile and falls back to other files.  Errors are chains   *)
(* as above.  The files on disk are an input: each is missing, unreadable, *)
(* holds a JSON syntax error, holds JSON that is not an object, or holds a *)
(* JSON object.                                                            *)
(***************************************************************************)

\* How many attempts the frame records; later ones are not recorded.
MaxAttempts == 4

GivenPath == "/file/does/not/exist/go/away"
JsonPaths == {GivenPath, "malformed.json", "good.json"}
FileStates == {"missing", "unreadable", "syntax", "mistyped", "valid"}

\* The *fs.PathError ioutil.ReadFile returns for path, wrapping the errno.
PathError(path, errno) ==
    <<[type |-> "PathError", tag |-> path], [type |-> "Errno", tag |-> errno]>>

\* errors.Is(err, os.ErrNotExist): some error met by unwrapping err is the
\* errno ENOENT.
RECURSIVE IsNotExist(_)
IsNotExistAny(err) == err # Nil
IsNotExist(err) ==
    IF err = Nil THEN FALSE
    ELSE IF Head(err).type = "Errno" /\ Head(err).tag = "ENOENT" THEN TRUE
    ELSE IsNotExist(Unwrap(err))

\* readAJSONFile(path) for a file in the given state: the error of
\* ioutil.ReadFile or of json.Unmarshal wrapped by fmt.Errorf, or nil.
ReadAJSONFile(path, state) ==
    CASE state = "missing" ->
           ErrorfW("readAJSONFile file error: ", PathError(path, "ENOENT"))
      [] state = "unreadable" ->
           ErrorfW("readAJSONFile file error: ", PathError(path, "EACCES"))
      [] state = "syntax" ->
           ErrorfW("readAJSONFile JSON error: ",
                   <<[type |-> "SyntaxError", tag |-> "invalid character"]>>)
      [] state = "mistyped" ->
           ErrorfW("readAJSONFile JSON error: ",
                   <<[type |-> "UnmarshalTypeError",
                      tag |-> "cannot unmarshal"]>>)
      [] OTHER -> Nil

\* The frame: files is the state of each file, path the argument of the
\* running call of readJSONFileAndFallback, pc the position ("read",
\* "check", "returned" to main, "exited", "panicked"), err the result of
\* readAJSONFile, ret what readJSONFileAndFallback returns to main, and
\* attempted the paths readAJSONFile was called with, in order (the first
\* MaxAttempts of them).
JsFrameOf(files) ==
    [files |-> files, path |-> GivenPath, pc |-> "read", err |-> Nil,
     ret |-> Nil, attempted |-> << >>]

\* The files as the example expects them.
JsFrame ==
    JsFrameOf([p \in JsonPaths |->
                 IF p = GivenPath THEN "missing"
                 ELSE IF p = "malformed.json" THEN "syntax" ELSE "valid"])

\* if err := readAJSONFile(path).
JsRead ==
    /\ js.pc = "read"
    /\ js' = [js EXCEPT
                !.err = ReadAJSONFile(js.path, js.files[js.path]),
                !.attempted = IF Len(@) < MaxAttempts
                              THEN Append(@, js.path) ELSE @,
                !.pc = "check"]
    /\ UNCHANGED othersJs

\* The chain holds an fs.PathError that is os.ErrNotExist:
\* return readJSONFileAndFallback("malformed.json").
JsFallbackMalformed ==
    /\ js.pc = "check"
    /\ As(js.err, "PathError") # Nil
    /\ IsNotExist(As(js.err, "PathError"))
    /\ js' = [js EXCEPT !.path = "malformed.json", !.pc = "read"]
    /\ UNCHANGED othersJs

\* The chain holds another fs.PathError: it is returned, wrapped, by this
\* call and by every call that waits for it.
JsReturnPathError ==
    /\ js.pc = "check"
    /\ As(js.err, "PathError") # Nil
    /\ ~IsNotExist(As(js.err, "PathError"))
    /\ js' = [js EXCEPT
                !.ret = ErrorfW("an unknown fs.PathError occurred: ",
                                As(js.err, "PathError")),
                !.pc = "returned"]
    /\ UNCHANGED othersJs

\* The chain holds a json.SyntaxError:
\* return readJSONFileAndFallback("good.json").
JsFallbackGood ==
    /\ js.pc = "check"
    /\ As(js.err, "PathError") = Nil
    /\ As(js.err, "SyntaxError") # Nil
    /\ js' = [js EXCEPT !.path = "good.json", !.pc = "read"]
    /\ UNCHANGED othersJs

\* No error, or an error that is neither: return nil.
JsReturnNil ==
    /\ js.pc = "check"
    /\ As(js.err, "PathError") = Nil
    /\ As(js.err, "SyntaxError") = Nil
    /\ js' = [js EXCEPT !.ret = Nil, !.pc = "returned"]
    /\ UNCHANGED othersJs

\* main: if err != nil { panic(err) }.
JsMain ==
    /\ js.pc = "returned"
    /\ js' = [js EXCEPT !.pc = IF js.ret # Nil THEN "panicked" ELSE "exited"]
    /\ UNCHANGED othersJs

NextJson ==
    \/ JsRead \/ JsFallbackMalformed \/ JsReturnPathError \/ JsFallbackGood
    \/ JsReturnNil \/ JsMain

(***************************************************************************)
(* test.sh: the loop over the examples found by find.  Directory 0 is the  *)
(* root of the repository, directory e the one of example e.  Whether an   *)
(* example builds and whether it exits with 0 is an input.                 *)
(***************************************************************************)

\* How many main.go files find lists.
NumExamples == 3

Examples == 1..NumExamples

\* What an example does: it builds and exits with 0, it does not build, it
\* builds and exits with another code, or it builds and exits with 0 in
\* some runs only.
Outcomes == {"ok", "nobuild", "fails", "flaky"}

\* The frame: outcome is the input, i the position in the list of find, cwd
\* the working directory, pc the command to run next ("cd", "build", "run",
\* "rm", "cdroot") or "done".  History: failedAt is the example whose build
\* or run first exited with another code than 0 (0: none yet), later the
\* builds and runs started after that.
TsFrameOf(outcome) ==
    [outcome |-> outcome, i |-> 1, cwd |-> 0, pc |-> "cd",
     failedAt |-> 0, later |-> {}]

TsFrame == TsFrameOf([e \in Examples |-> "ok"])

\* A command of line 12 has exited with another code than 0: && skips the
\* rest of the line, and the loop takes the next file.
TsNextFile(frame) == [frame EXCEPT !.i = @ + 1, !.pc = "cd"]

\* The build or run of the example in the working directory starts.
TsStarted(frame, cmd) ==
    IF frame.failedAt = 0 THEN frame
    ELSE [frame EXCEPT !.later = @ \cup {<<cmd, frame.cwd>>}]

\* The build or run of the example in the working directory has failed.
TsFailed(frame) ==
    TsNextFile([frame EXCEPT
                  !.failedAt = IF @ = 0 THEN frame.cwd ELSE @])

\* cd "$example_dir": the path is relative to the root, so it fails from
\* any other directory and leaves the working directory as it is.
TsCd ==
    /\ ts.pc = "cd"
    /\ ts.i \in Examples
    /\ ts' = [ts EXCEPT !.cwd = IF @ = 0 THEN ts.i ELSE @, !.pc = "build"]
    /\ UNCHANGED othersTs

\* go build -o example .
TsBuild ==
    /\ ts.pc = "build"
    /\ ts' = IF ts.outcome[ts.cwd] = "nobuild"
             THEN TsFailed(TsStarted(ts, "build"))
             ELSE [TsStarted(ts, "build") EXCEPT !.pc = "run"]
    /\ UNCHANGED othersTs

\* ./example
TsRun ==
    /\ ts.pc = "run"
    /\ \E ok \in BOOLEAN :
          /\ ts.outcome[ts.cwd] = "ok" => ok
          /\ ts.outcome[ts.cwd] = "fails" => ~ok
          /\ ts' = IF ok THEN [TsStarted(ts, "run") EXCEPT !.pc = "rm"]
                   ELSE TsFailed(TsStarted(ts, "run"))
    /\ UNCHANGED othersTs

\* rm ./example
TsRm ==
    /\ ts.pc = "rm"
    /\ ts' = [ts EXCEPT !.pc = "cdroot"]
    /\ UNCHANGED othersTs

\* cd "$reporoot", the last command of the line.
TsCdRoot ==
    /\ ts.pc = "cdroot"
    /\ ts' = TsNextFile([ts EXCEPT !.cwd = 0])
    /\ UNCHANGED othersTs

\* done: the list of find is exhausted.
TsDone ==
    /\ ts.pc = "cd"
    /\ ts.i \notin Examples
    /\ ts' = [ts EXCEPT !.pc = "done"]
    /\ UNCHANGED othersTs

NextTestSh == TsCd \/ TsBuild \/ TsRun \/ TsRm \/ TsCdRoot \/ TsDone

(***************************************************************************)
(* interfaces/02-typed-temperatures and the Temperature interface of       *)
(* interfaces/03: the conversions between Fahrenheit, Celsius and Kelvin.  *)
(* A float64 is modelled as a binary floating point number of Precision    *)
(* significant bits: an integer count v of units of 1/UnitsPerDegree       *)
(* degree with v = m * 2^k and |m| < 2^Precision.  Every arithmetic        *)
(* operation yields the exact result rounded to the nearest such number,   *)
(* ties to the even m, as float64 arithmetic does with 53 bits.  Overflow  *)
(* to an infinity and NaN are not modelled.                                *)
(***************************************************************************)

\* Significant bits of a number.
Precision == 16

\* The smallest step between two numbers is 1/UnitsPerDegree degree.
UnitsPerDegree == 256

\* The inputs: every number of at most MaxTemp units, and the numbers
\* m * 2^k and (2^Precision - m) * 2^k for m <= MaxMant and k <= MaxExp, of
\* both signs.
MaxTemp == 1000
MaxMant == 9
MaxExp == 8

Abs(x) == IF x < 0 THEN -x ELSE x

Max(a, b) == IF a < b THEN b ELSE a

\* The exponent k of the numbers of magnitude a / d: the least k with
\* a / d < 2^(Precision + k).
RECURSIVE ExpOf(_, _, _)
ExpOf(a, d, k) ==
    IF a < (2 ^ Precision) * d * (2 ^ k) THEN k ELSE ExpOf(a, d, k + 1)

\* a / d rounded to the nearest integer, ties to the even one (a >= 0).
RoundHalfEven(a, d) ==
    LET q == a \div d
        r == a % d
    IN  IF 2 * r < d THEN q
        ELSE IF 2 * r > d THEN q + 1
        ELSE IF q % 2 = 0 THEN q ELSE q + 1

\* The number nearest to n / d.
FloatRound(n, d) ==
    LET k == ExpOf(Abs(n), d, 0)
        m == RoundHalfEven(Abs(n), d * (2 ^ k))
    IN  (IF n < 0 THEN -1 ELSE 1) * m * (2 ^ k)

\* The float64 of the decimal literal n / d.
Literal(n, d) == FloatRound(n * UnitsPerDegree, d)

\* The distance between neighbouring numbers of the magnitude of x.
Ulp(x) == 2 ^ ExpOf(Abs(x), 1, 0)

\* (float64(f) - 32) * 5 / 9, evaluated from left to right.
FahrenheitToCelsiusNoOffset(f) == FloatRound(FloatRound(f * 5, 1), 9)
FahrenheitToCelsius(f) ==
    FloatRound(FloatRound(FloatRound(f - Literal(32, 1), 1) * 5, 1), 9)

\* (float64(c) * 9 / 5) + 32.
CelsiusToFahrenheit(c) ==
    FloatRound(FloatRound(FloatRound(c * 9, 1), 5) + Literal(32, 1), 1)

\* c + 273.15.
CelsiusToKelvin(c) == FloatRound(c + Literal(27315, 100), 1)

\* k - 273.15.
KelvinToCelsius(k) == FloatRound(k - Literal(27315, 100), 1)

FahrenheitToKelvin(f) == CelsiusToKelvin(FahrenheitToCelsius(f))

KelvinToFahrenheit(k) == CelsiusToFahrenheit(KelvinToCelsius(k))

TempUnits == {"Fahrenheit", "Celsius", "Kelvin"}

\* The free function that converts from one unit to another.
ConvertTemp(from, to, v) ==
    CASE from = "Fahrenheit" /\ to = "Celsius" -> FahrenheitToCelsius(v)
      [] from = "Fahrenheit" /\ to = "Kelvin" -> FahrenheitToKelvin(v)
      [] from = "Celsius" /\ to = "Fahrenheit" -> CelsiusToFahrenheit(v)
      [] from = "Celsius" /\ to = "Kelvin" -> CelsiusToKelvin(v)
      [] from = "Kelvin" /\ to = "Fahrenheit" -> KelvinToFahrenheit(v)
      [] from = "Kelvin" /\ to = "Celsius" -> KelvinToCelsius(v)

\* The methods Fahrenheit(), Celsius() and Kelvin() of the type Celsius.
CelsiusMethod(c, to) ==
    CASE to = "Fahrenheit" ->
           FloatRound(FloatRound(FloatRound(c * 9, 1), 5) + Literal(32, 1), 1)
      [] to = "Celsius" -> c
      [] to = "Kelvin" -> FloatRound(c + Literal(27315, 100), 1)

\* The methods of the type Fahrenheit; Kelvin() is f.Celsius().Kelvin().
FahrenheitMethod(f, to) ==
    LET celsius ==
          FloatRound(FloatRound(FloatRound(f - Literal(32, 1), 1) * 5, 1), 9)
    IN  CASE to = "Fahrenheit" -> f
          [] to = "Celsius" -> celsius
          [] to = "Kelvin" -> CelsiusMethod(celsius, "Kelvin")

\* The methods of the type Kelvin; Fahrenheit() is k.Celsius().Fahrenheit().
KelvinMethod(k, to) ==
    LET celsius == FloatRound(k - Literal(27315, 100), 1)
    IN  CASE to = "Fahrenheit" -> CelsiusMethod(celsius, "Fahrenheit")
          [] to = "Celsius" -> celsius
          [] to = "Kelvin" -> k

\* The method of a Temperature of the given unit.
TemperatureMethod(from, to, v) ==
    CASE from = "Fahrenheit" -> FahrenheitMethod(v, to)
      [] from = "Celsius" -> CelsiusMethod(v, to)
      [] from = "Kelvin" -> KelvinMethod(v, to)

\* The values converted: the inputs above and the literals of the examples.
Temps ==
    (-MaxTemp..MaxTemp)
    \cup {s * m * (2 ^ k) : s \in {-1, 1}, m \in 1..MaxMant, k \in 0..MaxExp}
    \cup {s * ((2 ^ Precision) - m) * (2 ^ k) :
            s \in {-1, 1}, m \in 1..MaxMant, k \in 0..MaxExp}
    \cup {Literal(100, 1), Literal(212, 1), Literal(37315, 100),
          Literal(80, 1), Literal(70, 1), Literal(300, 1)}

\* The frame: a value v of a unit is converted to the unit to and back,
\* by the free functions (there, back) and by the methods (thereMethod,
\* backMethod); pc is "start", "there" or "back".
TtFrameOf(unit, v) ==
    [unit |-> unit, v |-> v, to |-> unit, pc |-> "start",
     there |-> v, back |-> v, thereMethod |-> v, backMethod |-> v]

TtFrame == TtFrameOf("Celsius", Literal(100, 1))

\* The value is converted to another unit.
TtConvert(to) ==
    /\ tt.pc = "start"
    /\ to # tt.unit
    /\ tt' = [tt EXCEPT !.to = to, !.pc = "there",
                !.there = ConvertTemp(tt.unit, to, tt.v),
                !.thereMethod = TemperatureMethod(tt.unit, to, tt.v)]
    /\ UNCHANGED othersTt

\* The converted value is converted back.
TtBack ==
    /\ tt.pc = "there"
    /\ tt' = [tt EXCEPT !.pc = "back",
                !.back = ConvertTemp(tt.to, tt.unit, tt.there),
                !.backMethod =
                    TemperatureMethod(tt.to, tt.unit, tt.thereMethod)]
    /\ UNCHANGED othersTt

NextTemps == (\E to \in TempUnits : TtConvert(to)) \/ TtBack

(***************************************************************************)
(* Specifications.                                                         *)
(***************************************************************************)

Init ==
    /\ mx = MutexFrame
    /\ rc = RaceFrame
    /\ runner = RunnerNone
    /\ gr = GrFrame
    /\ fan = FanFrame
    /\ nb = NbFrame
    /\ sd = SdFrame
    /\ cx = CxFrame
    /\ ec = EcFrame
    /\ js = JsFrame
    /\ ts = TsFrame
    /\ tt = TtFrame

\* The frame of a program that is not running.
NotRunning == [pc |-> "none"]

\* mutexes() alone, with no other program running.
InitMutexes ==
    /\ mx = MutexFrame
    /\ rc = RaceIdle
    /\ runner = RunnerNone
    /\ gr = NotRunning
    /\ fan = NotRunning
    /\ nb = NotRunning
    /\ sd = NotRunning
    /\ cx = NotRunning
    /\ ec = NotRunning
    /\ js = NotRunning
    /\ ts = NotRunning
    /\ tt = NotRunning

SpecMutexes == InitMutexes /\ [][NextMutexes]_vars

SpecRace == Init /\ [][NextRace]_vars

InitRunner ==
    /\ mx = MutexFrame
    /\ rc = RaceIdle
    /\ runner = RunnerFrame
    /\ gr = GrFrame
    /\ fan = FanFrame
    /\ nb = NbFrame
    /\ sd = SdFrame
    /\ cx = CxFrame
    /\ ec = EcFrame
    /\ js = JsFrame
    /\ ts = TsFrame
    /\ tt = TtFrame

\* The Go scheduler runs every runnable goroutine eventually.
FairRunner ==
    /\ WF_vars(RunnerBreak) /\ WF_vars(RunnerCall) /\ WF_vars(RunnerRecord)
    /\ WF_vars(RcSpawn) /\ WF_vars(RcLoopEnd)
    /\ WF_vars(RcWait) /\ WF_vars(RcReturn)
    /\ \A k \in RaceGoroutines :
          WF_vars(RcRead(k)) /\ WF_vars(RcWrite(k)) /\ WF_vars(RcDone(k))

FairSpecRunner == InitRunner /\ [][NextRunner]_vars /\ FairRunner

SpecGoroutines == Init /\ [][NextGoroutines]_vars

SpecFan == Init /\ [][NextFan]_vars

\* Some runnable goroutine always runs: the program does not stop while a
\* step is possible.
FairSpecFan == Init /\ [][NextFan]_vars /\ WF_vars(NextFan)

SpecNb == Init /\ [][NextNb]_vars

\* The steps of the sender goroutines, of the collecting goroutine outside
\* its receive cases, and of main.
SenderSteps ==
    \E s \in Chans : SenderNext(s) \/ SenderLoopEnd(s) \/ SenderClose(s)
CollectorSteps ==
    SelectDefault \/ HandleChannelEvent \/ CollectorExit \/ CollectorLoop
NbMainSteps == NbGo \/ NbRangeEnds

\* Fair scheduling: the senders, the collecting goroutine and main each
\* keep running while they can take a step.  Fair select choice: while
\* values can be received again and again one eventually is, and the
\* receive case of a closed channel is eventually chosen.
FairNb ==
    /\ WF_vars(SenderSteps)
    /\ WF_vars(CollectorSteps)
    /\ WF_vars(NbMainSteps)
    /\ SF_vars(\E s \in Chans : SelectRecvValue(s))
    /\ \A s \in Chans : SF_vars(SelectRecvClosed(s))

FairSpecNb == Init /\ [][NextNb]_vars /\ FairNb

\* nonBlockingChannelReads with and without the line "close(destChan)".
InitNbCloseOrNot ==
    /\ mx = MutexFrame
    /\ rc = RaceFrame
    /\ runner = RunnerNone
    /\ gr = GrFrame
    /\ fan = FanFrame
    /\ nb \in {NbFrame, NbFrameNoClose}
    /\ sd = SdFrame
    /\ cx = CxFrame
    /\ ec = EcFrame
    /\ js = JsFrame
    /\ ts = TsFrame
    /\ tt = TtFrame

FairSpecNbCloseOrNot == InitNbCloseOrNot /\ [][NextNb]_vars /\ FairNb

SpecShutdown == Init /\ [][NextShutdown]_vars

SpecContexts == Init /\ [][NextContexts]_vars

\* Some runnable goroutine always runs, and time passes when none can run.
FairSpecContexts == Init /\ [][NextContexts]_vars /\ WF_vars(NextContexts)

\* The helpers applied to every error of at most MaxWrappers wrappers and
\* every filename to look for.
InitErrors ==
    /\ mx = MutexFrame
    /\ rc = RaceFrame
    /\ runner = RunnerNone
    /\ gr = GrFrame
    /\ fan = FanFrame
    /\ nb = NbFrame
    /\ sd = SdFrame
    /\ cx = CxFrame
    /\ ec \in {FrameOf(err, filename) :
                  err \in ErrorChains, filename \in Filenames}
    /\ js = JsFrame
    /\ ts = TsFrame
    /\ tt = TtFrame

SpecErrors == InitErrors /\ [][NextErrors]_vars

\* readJSONFileAndFallback for every state of the three files.
InitJson ==
    /\ mx = MutexFrame
    /\ rc = RaceFrame
    /\ runner = RunnerNone
    /\ gr = GrFrame
    /\ fan = FanFrame
    /\ nb = NbFrame
    /\ sd = SdFrame
    /\ cx = CxFrame
    /\ ec = EcFrame
    /\ js \in {JsFrameOf(files) : files \in [JsonPaths -> FileStates]}
    /\ ts = TsFrame
    /\ tt = TtFrame

SpecJson == InitJson /\ [][NextJson]_vars

\* The program keeps running while it can take a step.
FairSpecJson == InitJson /\ [][NextJson]_vars /\ WF_vars(NextJson)

\* test.sh for every outcome of every example.
InitTestSh ==
    /\ mx = MutexFrame
    /\ rc = RaceFrame
    /\ runner = RunnerNone
    /\ gr = GrFrame
    /\ fan = FanFrame
    /\ nb = NbFrame
    /\ sd = SdFrame
    /\ cx = CxFrame
    /\ ec = EcFrame
    /\ js = JsFrame
    /\ ts \in {TsFrameOf(outcome) : outcome \in [Examples -> Outcomes]}
    /\ tt = TtFrame

SpecTestSh == InitTestSh /\ [][NextTestSh]_vars

\* The conversions of every input of every unit.
InitTemps ==
    /\ mx = MutexFrame
    /\ rc = RaceFrame
    /\ runner = RunnerNone
    /\ gr = GrFrame
    /\ fan = FanFrame
    /\ nb = NbFrame
    /\ sd = SdFrame
    /\ cx = CxFrame
    /\ ec = EcFrame
    /\ js = JsFrame
    /\ ts = TsFrame
    /\ tt \in {TtFrameOf(unit, v) : unit \in TempUnits, v \in Temps}

SpecTemps == InitTemps /\ [][NextTemps]_vars

(***************************************************************************)
(* Claims about footguns/01-race-conditions.                               *)
(***************************************************************************)

\* The goroutines of mutexes() between mux.Lock() and mux.Unlock().
MutexHolders == {k \in MutexGoroutines : mx.g[k] \in {"read", "write", "unlock"}}

\* C1: on every interleaving mutexes() returns 55 = 0+1+...+10; at most one
\* goroutine is between mux.Lock() and mux.Unlock() at any time; and
\* finalValue is read for the return only after wg.Wait() has returned, that
\* is when every goroutine has called wg.Done().
MutexesReturns55 ==
    /\ Cardinality(MutexHolders) <= 1
    /\ mx.pc \in {"return", "done"} =>
          \A k \in MutexGoroutines : mx.g[k] = "exited"
    /\ mx.pc \in {"return", "done"} => mx.finalValue = 55
    /\ mx.pc = "done" => mx.ret = 55

\* mutexes() has returned 55 after all eleven goroutines ran.
MutexesReturned == mx.pc = "done" /\ mx.ret = 55 /\ mx.i = 11

\* C2: raceConditions() returns something else than the sum of all i exactly
\* in runs in which an update was lost: a goroutine stored its sum over a
\* finalValue that another goroutine had changed since it loaded it.  Such
\* runs exist (RaceReturnedWrongSum).
RaceLostUpdate ==
    rc.pc = "done" =>
        /\ rc.ret # SumTo(0, RaceLoopMax) => rc.lost
        /\ ~rc.lost => rc.ret = SumTo(0, RaceLoopMax)
        /\ \A k \in RaceGoroutines : rc.g[k] = "exited"

\* raceConditions() has returned a value that is not the sum of all i.
RaceReturnedWrongSum ==
    rc.pc = "done" /\ rc.ret # SumTo(0, RaceLoopMax) /\ rc.lost

\* C3: the loop of runRaceConditionsAndMutexes eventually exits.
RunnerLoopExits == <>(runner.pc = "results")

(***************************************************************************)
(* Claims about the goroutines example.                                    *)
(***************************************************************************)

\* The goroutines of call f that were started and have not called wg.Done().
WgRunning(f) == {k \in Sleepers : gr.w[f].s[k] = "sleeping"}

\* The child goroutines that were started and have not called wg.Done().
ChildrenRunning == {c \in Children : gr.child[c] = "call"}

\* C4: in every call of waitingWithAWaitgroup, wg.Wait() has returned only
\* when every goroutine of the loop has been started and has called
\* wg.Done(); the counter counts the goroutines started and not yet done
\* plus the one whose wg.Add(1) has run and whose go statement has not (so
\* each Add precedes its goroutine and Wait), and is never negative.  The
\* same holds of childGoroutines, which has returned only when every child
\* and every goroutine of every child's call has ended.
WaitGroupJoins ==
    /\ \A f \in WaitCalls :
          /\ gr.w[f].wg >= 0
          /\ gr.w[f].wg = Cardinality(WgRunning(f))
                             + (IF gr.w[f].pc = "go" THEN 1 ELSE 0)
          /\ gr.w[f].pc = "wait" => gr.w[f].i = WaitLoopMax + 1
          /\ gr.w[f].pc = "returned" =>
                \A k \in Sleepers : gr.w[f].s[k] = "exited"
    /\ gr.cwg >= 0
    /\ gr.cwg = Cardinality(ChildrenRunning)
                   + (IF gr.pc = "childgo" THEN 1 ELSE 0)
    /\ gr.pc = "childwait" => gr.ci = ChildLoopMax + 1
    /\ gr.pc \in {"spawning", "spawning2", "mainreturn", "exited"} =>
          /\ \A c \in Children : gr.child[c] = "exited"
          /\ \A f \in WaitCalls : gr.w[f].pc = "returned"
          /\ \A f \in WaitCalls : \A k \in Sleepers : gr.w[f].s[k] = "exited"

\* childGoroutines has returned, after every child ran its own call of
\* waitingWithAWaitgroup to the end.
ChildGoroutinesReturned ==
    /\ gr.pc = "spawning"
    /\ \A f \in WaitCalls : gr.w[f].pc = "returned" /\ gr.w[f].i = WaitLoopMax + 1

\* C5: when the program has exited, neither goroutine of spawning() has
\* printed its line.
SpawnedNeverPrint ==
    gr.pc = "exited" => gr.sleep # "printed" /\ gr.hello # "printed"

(***************************************************************************)
(* Claims about contexts/02-channels.                                      *)
(***************************************************************************)

\* The numbers of the producers parked at "numChan <- num".
FanInFlight ==
    LET parked == {p \in Producers : fan.prod[p].pc = "send"}
        Count(v) == Cardinality({p \in parked : fan.prod[p].num = v})
        vals == {fan.prod[p].num : p \in parked}
    IN  [v \in vals |-> Count(v)]

\* The sum of the consumers' sums.
FanSumOfSums == SumOver([c \in Consumers |-> fan.cons[c].sum], Consumers)

\* C6: every number sent on numChan is received by exactly one consumer:
\* the numbers printed as sent are, each as often as it was sent, the numbers
\* printed as received plus those whose producer is still parked at its
\* send; the consumers' sums add up to the sum of the numbers received; and
\* when the function has returned every number sent has been received, so
\* the sum of the consumers' sums is the sum of all numbers sent.
FanExactlyOnce ==
    /\ fan.sent = fan.received (+) FanInFlight
    /\ FanSumOfSums = BagSum(fan.received)
    /\ fan.pc = "returned" =>
          /\ fan.received = fan.sent
          /\ FanSumOfSums = BagSum(fan.sent)

\* The function has returned after every producer sent all its numbers,
\* some of them not zero, and more than one consumer received one.
FanAllReceived ==
    /\ fan.pc = "returned"
    /\ BagCardinality(fan.sent) = NumProducers * SendsPerProducer
    /\ BagSum(fan.sent) > 0
    /\ Cardinality({c \in Consumers : fan.cons[c].sum > 0}) >= 2

\* C7: numChan is closed only after all producers have finished (so no
\* producer is at a send, or before one, when numChan is closed), it is
\* closed once and stays closed, and once it is closed every consumer's
\* range loop ends, consumerWaitGroup.Wait() returns and the function
\* returns.
FanCloseThenTerminate ==
    /\ [](fan.closed => \A p \in Producers : fan.prod[p].pc = "exited")
    /\ [](fan.closed <=> fan.pc \in {"cwait", "returned"})
    /\ [][fan.closed => fan'.closed]_vars
    /\ [](fan.pc = "returned" => \A c \in Consumers : fan.cons[c].pc = "exited")
    /\ (fan.closed ~> fan.pc = "returned")
    /\ <>(fan.closed)

\* numChan is closed, all producers have finished and a consumer is still
\* in its range loop.
FanClosedConsumersRunning ==
    /\ fan.closed
    /\ \A p \in Producers : fan.prod[p].pc = "exited"
    /\ \E c \in Consumers : fan.cons[c].pc = "recv"
    /\ BagCardinality(fan.received) = NumProducers * SendsPerProducer

\* C8: the 'Cumulative Value' main prints is the sum of all the numbers the
\* three senders sent; until then sum never exceeds it.
CumulativeValueIsSum ==
    /\ nb.sum <= nb.sentTotal
    /\ nb.pc = "printed" => nb.sum = nb.sentTotal

\* main has printed a 'Cumulative Value' that is not zero, after every
\* sender sent all its numbers.
CumulativePrinted ==
    /\ nb.pc = "printed"
    /\ nb.sum > 0
    /\ \A s \in Chans : nb.sender[s].i = NumsPerSender

\* C9: under fair scheduling and fair select choice main's range loop
\* eventually ends, which it does only when cumulativeChan is closed; when
\* cumulativeChan is closed the three finished flags are all true and the
\* collecting goroutine has returned (it closes the channel once and sends
\* nothing afterwards); cumulativeChan stays closed; and a finished flag
\* that is true stays true.
NbTerminates ==
    /\ <>(nb.pc = "printed")
    /\ [](nb.pc = "printed" => nb.cumulativeClosed)
    /\ [](nb.cumulativeClosed =>
            nb.cpc = "returned" /\ \A s \in Chans : nb.finished[s])
    /\ [][nb.cumulativeClosed => nb'.cumulativeClosed]_vars
    /\ [][\A s \in Chans : nb.finished[s] => nb'.finished[s]]_vars

\* All three flags are true, cumulativeChan is closed and main's range loop
\* has ended.
NbTerminated ==
    /\ \A s \in Chans : nb.finished[s]
    /\ nb.cumulativeClosed
    /\ nb.cpc = "returned"
    /\ nb.pc = "printed"

\* C10: once any of chan1, chan2, chan3 is closed, the select never runs
\* its default case: the receive case of the closed channel can proceed.
NoDefaultAfterClose ==
    [][(\E s \in Chans : nb.closed[s]) => ~SelectDefault]_vars

\* The collecting goroutine is at the select with one channel closed, its
\* flag already true, and no sender parked at a send.
SelectWithClosedChannel ==
    /\ nb.cpc = "select"
    /\ \E s \in Chans : nb.closed[s] /\ nb.finished[s]
    /\ \A s \in Chans : nb.sender[s].pc # "send"
    /\ \E s \in Chans : ~nb.closed[s]

\* C11: without close(destChan) the program deadlocks: it reaches a state in
\* which no goroutine can take a step.
NoCloseDeadlocks == (~nb.closeDestChan) => <>(~ENABLED NextNb)

\* C12: when "Goroutine is now shut down" has been printed, the worker has
\* received the signal, printed "Received shutdown signal" and returned.
ShutDownWhenPrinted ==
    sd.pc \in {"returned", "exited"} => sd.w = "returned"

(***************************************************************************)
(* Claims about the contexts example.                                      *)
(***************************************************************************)

\* The running call is childContexts(t milliseconds).
InChildContexts(t) ==
    /\ cx.call <= Len(MainCalls)
    /\ MainCalls[cx.call] = [fn |-> "childContexts", timeout |-> t]

\* The long-running process k has left its loop.
ProcStopped(k) == cx.p[k] \in {"timeit", "close", "exited"}

\* C13: a child context that becomes done by its own timeout or its own
\* cancel function leaves its parent as it was; and in childContexts(100ms)
\* every process stops because of its own child's timeout, while parentCtx
\* is not done.
ChildNeverCancelsParent ==
    [][/\ \A k \in Procs :
            (cx'.child[k].done /\ ~cx.child[k].done
                /\ cx'.child[k].cause # "parent") => cx'.ctx = cx.ctx
       /\ InChildContexts(100) =>
            \A k \in Procs :
                (cx.p[k] = "select" /\ cx'.p[k] = "timeit") =>
                    /\ ~cx.ctx.done /\ ~cx'.ctx.done
                    /\ cx.child[k].cause = "timer"]_vars

\* C14: when a parent context is done so is every child made from it; and
\* in childContexts(1ms) no child reaches its own timeout, every process
\* that stops does so after the parent's timeout made its child context
\* done, and when childContexts returns all processes have shut down.
ParentCancelsChildren ==
    /\ cx.ctx.done => \A k \in Procs : cx.child[k].made => cx.child[k].done
    /\ InChildContexts(1) =>
        /\ \A k \in Procs : cx.child[k].cause # "timer"
        /\ \A k \in Procs :
              ProcStopped(k) => /\ cx.ctx.done /\ cx.ctx.cause = "timer"
                                /\ cx.child[k].done
                                /\ cx.child[k].cause = "parent"
        /\ cx.pc \in {"defer", "return"} =>
              \A k \in Procs : cx.p[k] = "exited" /\ cx.child[k].done

ChildrenStoppedByParent ==
    /\ InChildContexts(1)
    /\ cx.pc = "defer"
    /\ \A k \in Procs : cx.p[k] = "exited" /\ cx.child[k].cause = "parent"

\* The running call is sharedContexts / simpleCancellation.
InSharedContexts == CxFn(cx) = "sharedContexts"
InSimpleCancellation == CxFn(cx) = "simpleCancellation"

\* C15: in sharedContexts no long-running process stops before ctx is done,
\* all of them stop once it is, and sharedContexts returns only after ctx
\* is done and every done channel has been closed.
SharedContextSynchronizes ==
    /\ [](InSharedContexts =>
            /\ \A k \in Procs : ProcStopped(k) => cx.ctx.done
            /\ cx.pc \in {"defer", "return"} =>
                  /\ cx.ctx.done
                  /\ \A k \in Procs : cx.closes[k] = 1 /\ cx.p[k] = "exited")
    /\ <>(InSharedContexts /\ cx.ctx.done
            /\ \A k \in Procs : cx.p[k] = "exited")

SharedContextsReturns ==
    /\ InSharedContexts
    /\ cx.pc = "return"
    /\ \A k \in Procs : cx.closes[k] = 1

\* C16: the channel startLongRunningProcess returns is closed at most once
\* and only when ctx is done; once the process runs and ctx is done the
\* channel is eventually closed; simpleCancellation prints "Context
\* cancelled!" only after cancel() was called and the channel closed; and
\* its deferred cancel() changes neither the context nor the process.
DoneChanClosedOnceAfterDone ==
    /\ [](\A k \in Procs :
            /\ cx.closes[k] <= 1
            /\ cx.closes[k] = 1 => CtxOf(cx, k).done)
    /\ \A k \in Procs :
          (cx.p[k] # "none" /\ CtxOf(cx, k).done) ~> (cx.closes[k] = 1)
    /\ [](InSimpleCancellation /\ cx.pc \in {"defer", "return"} =>
            cx.cancels >= 1 /\ cx.closes[1] = 1)
    /\ [][(InSimpleCancellation /\ cx.pc = "defer" /\ cx'.pc = "return") =>
            /\ cx.cancels = 1 /\ cx'.cancels = 2
            /\ cx'.ctx = cx.ctx /\ cx'.p = cx.p /\ cx'.closes = cx.closes]_vars

SimpleCancellationDeferredCancel ==
    /\ InSimpleCancellation
    /\ cx.pc = "return"
    /\ cx.cancels = 2
    /\ cx.closes[1] = 1

(***************************************************************************)
(* Claims about the error chains.                                          *)
(***************************************************************************)

\* The errors of the chain of err, from err itself to the innermost.
RECURSIVE ChainFrom(_)
ChainFrom(err) ==
    IF err = Nil THEN << >> ELSE <<err>> \o ChainFrom(Unwrap(err))

\* The first result that is not nil of matchFunc applied to errs in order.
RECURSIVE FirstMatch(_, _)
FirstMatch(errs, filename) ==
    IF errs = << >> THEN Nil
    ELSE IF MatchFunc(Head(errs), filename) # Nil
    THEN MatchFunc(Head(errs), filename)
    ELSE FirstMatch(Tail(errs), filename)

\* C17: TraverseErrorChain applies matchFunc to every error of the chain
\* from err itself to the innermost, and returns the first result that is
\* not nil, or nil if there is none.
TraverseWholeChain ==
    ec.pc \in {"returned", "done"} =>
        /\ ec.ourErr = FirstMatch(ChainFrom(ec.err), ec.filename)
        /\ ec.ourErr = Nil => ec.applied = ChainFrom(ec.err)

\* The positions of the FileErrors in err.
FileErrorsIn(err) == {i \in 1..Len(err) : err[i].type = "FileError"}
Outermost(S) == CHOOSE i \in S : \A j \in S : i <= j
Innermost(S) == CHOOSE i \in S : \A j \in S : j <= i

\* err nests several FileErrors in a chain every wrapper of which can be
\* unwrapped, and the innermost FileError is the only one with the filename.
SeveralFileErrors(err, filename) ==
    /\ \A i \in 1..Len(err) : err[i].type # "resolvableError"
    /\ Cardinality(FileErrorsIn(err)) >= 2
    /\ \A i \in FileErrorsIn(err) :
          err[i].tag = filename <=> i = Innermost(FileErrorsIn(err))

\* C18: for a chain of several FileErrors the innermost of which has the
\* filename looked for, errors.As in DebugFileAndCustomWrappedError yields
\* the outermost FileError, and TraverseErrorChain returns the innermost
\* FileError, which carries the filename.
TraverseFindsInnermost ==
    (ec.pc = "done" /\ SeveralFileErrors(ec.err, ec.filename)) =>
        LET files == FileErrorsIn(ec.err)
        IN  /\ ec.dbg.file = <<ec.err[Outermost(files)].tag>>
            /\ ec.dbg.file # <<ec.filename>>
            /\ ec.ourErr = SubSeq(ec.err, Innermost(files), Len(ec.err))
            /\ ec.dbgOurErr.file = <<ec.filename>>

NestedFileErrorsDone ==
    /\ ec.pc = "done"
    /\ ec.err = NestedFileErrors
    /\ ec.filename = "/yet/another/nonexistant/file"
    /\ ec.dbg.file = <<"/a/nonexistant/file">>

\* err is a FileError and a CustomWrappedError, one wrapping the other,
\* around an error that wraps nothing.
OneOfEach(err) ==
    /\ Len(err) = 3
    /\ {err[1].type, err[2].type} = {"FileError", "CustomWrappedError"}
    /\ err[3].type = "errorString"

\* C19: for a chain of one FileError and one CustomWrappedError,
\* DebugFileAndCustomWrappedError reports the filename and the message, and
\* reports the same for the chain with the two nested the other way round.
NestingOrderIrrelevant ==
    (ec.pc # "debug" /\ OneOfEach(ec.err)) =>
        LET swapped == <<ec.err[2], ec.err[1], ec.err[3]>>
            file == IF ec.err[1].type = "FileError" THEN ec.err[1].tag
                    ELSE ec.err[2].tag
            msg == IF ec.err[1].type = "FileError" THEN ec.err[2].tag
                   ELSE ec.err[1].tag
        IN  /\ ec.dbg.file = <<file>>
            /\ ec.dbg.msg = <<msg>>
            /\ DebugFileAndCustomWrappedError(swapped).file = ec.dbg.file
            /\ DebugFileAndCustomWrappedError(swapped).msg = ec.dbg.msg

CustomWrapsFileDebugged ==
    /\ ec.pc = "call"
    /\ ec.err = NewCustomWrappedError("contents malformed",
                    NewFileError("/a/nonexistant/file",
                                 Errorf("innermost error")))
    /\ ec.dbg.file = <<"/a/nonexistant/file">>
    /\ ec.dbg.msg = <<"contents malformed">>

\* C20: unwrapping a wrapper (CustomWrappedError, FileError,
\* resolvableError) yields exactly its inner error, and unwrapping an error
\* with no inner error yields nil.
UnwrapYieldsInner ==
    (ec.pc # "debug" /\ ec.err # Nil) =>
        ec.dbg.unwrapped = IF ec.err[1].type = "errorString" THEN Nil
                           ELSE Inner(ec.err)

(***************************************************************************)
(* Claims about 08-interrogating-errors.                                   *)
(***************************************************************************)

\* The files as the claim describes them.
FilesAsExpected ==
    /\ js.files[GivenPath] = "missing"
    /\ js.files["malformed.json"] = "syntax"
    /\ js.files["good.json"] = "valid"

\* readJSONFileAndFallback has returned to main.
JsReturned == js.pc \in {"returned", "exited", "panicked"}

\* C21: with the path missing, malformed.json holding a syntax error and
\* good.json valid, the files are attempted in the order path,
\* malformed.json, good.json, nil is returned and main does not panic; and
\* an unreadable file (a path error other than "does not exist") is the
\* last one attempted: a wrapped, non-nil error is returned for it and main
\* panics rather than exits.
FallbackOrderAndPanic ==
    /\ FilesAsExpected =>
          /\ \A i \in 1..Len(js.attempted) :
                js.attempted[i] = <<GivenPath, "malformed.json", "good.json">>[i]
          /\ JsReturned =>
                /\ js.attempted = <<GivenPath, "malformed.json", "good.json">>
                /\ js.ret = Nil
                /\ js.pc # "panicked"
    /\ \A i \in 1..(Len(js.attempted) - 1) :
          js.files[js.attempted[i]] # "unreadable"
    /\ (JsReturned /\ js.files[js.path] = "unreadable") =>
          /\ js.ret = ErrorfW("an unknown fs.PathError occurred: ",
                              PathError(js.path, "EACCES"))
          /\ js.pc # "exited"
    /\ js.pc = "panicked" => js.files[js.path] = "unreadable"

FellBackToGoodJson ==
    /\ FilesAsExpected
    /\ js.pc = "exited"
    /\ js.attempted = <<GivenPath, "malformed.json", "good.json">>

\* C24: readJSONFileAndFallback returns to main, whatever the files are.
FallbackTerminates == <>JsReturned

(***************************************************************************)
(* Claims about test.sh.                                                   *)
(***************************************************************************)

\* C23: once the build or the run of an example has exited with another
\* code than 0, the script starts no build and no run any more.
HaltsOnFailure == ts.failedAt # 0 => ts.later = {}

(***************************************************************************)
(* Claims about the temperature conversions.                               *)
(***************************************************************************)

\* How many steps between neighbouring numbers a round trip may be off.
Tolerance == 8

\* a and b differ by at most Tolerance steps of the numbers of the largest
\* magnitude met on the way.
WithinTolerance(a, b, largest) == Abs(a - b) <= Tolerance * Ulp(largest)

\* C22: a value converted to another unit and back is the original value
\* within tolerance, by the free functions and by the methods; the free
\* functions and the methods agree; and the conversions between Kelvin and
\* Fahrenheit are the compositions of the conversions through Celsius.
ConversionsConsistent ==
    /\ tt.pc = "back" =>
          /\ WithinTolerance(tt.back, tt.v, Max(Abs(tt.v), Abs(tt.there)))
          /\ WithinTolerance(tt.backMethod, tt.v,
                             Max(Abs(tt.v), Abs(tt.thereMethod)))
    /\ tt.pc # "start" =>
          /\ tt.thereMethod = tt.there
          /\ (tt.unit = "Fahrenheit" /\ tt.to = "Kelvin") =>
                /\ tt.there = CelsiusToKelvin(FahrenheitToCelsius(tt.v))
                /\ tt.thereMethod =
                     CelsiusMethod(FahrenheitMethod(tt.v, "Celsius"), "Kelvin")
          /\ (tt.unit = "Kelvin" /\ tt.to = "Fahrenheit") =>
                /\ tt.there = CelsiusToFahrenheit(KelvinToCelsius(tt.v))
                /\ tt.thereMethod =
                     CelsiusMethod(KelvinMethod(tt.v, "Celsius"), "Fahrenheit")

\* A round trip between Fahrenheit and Kelvin that rounding made inexact.
RoundTripInexact ==
    /\ tt.pc = "back"
    /\ tt.unit = "Fahrenheit"
    /\ tt.to = "Kelvin"
    /\ tt.back # tt.v
    /\ tt.backMethod # tt.v

=============================================================================
